---- MODULE Spec2Model ----
(***************************************************************************)
(* Model of the Hacker News -> Telegram staging pipeline:                  *)
(*   publish/staging_store.py  the Redis staging store and published set   *)
(*   publish/pending_store.py  the Redis pending-post (link) store         *)
(*   tasks.py                  the Celery beat tick publish_latest         *)
(*   publish/handlers.py       handle_automatic_forward (the bot side)     *)
(*                                                                         *)
(* A Redis command that raises RedisError is modelled as not applied.      *)
(* redis-py pipelines default to transaction=True (MULTI/EXEC), so the     *)
(* commands of one pipeline are applied in one step.                       *)
(***************************************************************************)
EXTENDS Integers, Sequences, FiniteSets, TLC

\* ---------------------------------------------------------------- config.py
SECONDS_IN_HOUR == 3600
SECONDS_IN_MINUTE == 60
PENDING_REDIS_TTL == 15 * SECONDS_IN_MINUTE
ARTICLE_MAX_WAIT_SECONDS == 5 * SECONDS_IN_HOUR
ARTICLE_METRIC_REFRESH_SECONDS == 10 * SECONDS_IN_MINUTE
ARTICLE_MIN_POINTS == 50
ARTICLE_MIN_COMMENTS == 50
ARTICLE_AGE_FLOOR_POINTS == 10
ARTICLE_AGE_FLOOR_COMMENTS == 10

\* Python's None in an integer field (Article.hn_score and the like).
NONE == -1
\* In regAt and pubRegAt: the registration's expiry window has passed.
EXPIRED == -2
\* In the id field of a stored payload: the payload is not JSON, or its article
\* does not rebuild (json.loads raises, or _deserialize_article returns None).
UNPARSABLE == -3
\* In the id field of a stored payload: the payload is JSON of another shape
\* (not an object, or staged_at not a number), so data.get or float() raises.
MISSHAPEN == -4

\* ------------------------------------------------------------------ bounds
\* The clock at start-up, and how often it may advance in one behaviour
\* (MaxBridgeAdvances where the bot side is modelled with a single article).
T0 == 100000
MaxAdvances == 1
MaxBridgeAdvances == 2
\* How many headline posts the channel takes in one behaviour.
MaxPosts == 2
\* How many results of pop_pending_post are logged per registration.
MaxPopLog == 2
\* How many discussion replies are counted per channel post.
MaxReplies == 2

Ids == {1, 2}
Procs == {1, 2}
Handlers == {1, 2}
Events == 1..MaxPosts
Deltas == {10 * SECONDS_IN_MINUTE, 5 * SECONDS_IN_HOUR}
DEST == "discussion"
Dests == {DEST, "elsewhere"}
\* TG_CHANNEL_ID as configured, and the id of some other channel.
CHANNEL_ID == 1001
OTHER_CHANNEL == 1002
SourceChannels == {CHANNEL_ID, OTHER_CHANNEL}

\* What the upstream (Firebase item: score, descendants, time) may report.
Obs(scores, counts, times) ==
    [score : scores, comments : counts, posted : times]
ObsSmall ==
    { [score |-> 0, comments |-> 0, posted |-> T0],
      [score |-> 60, comments |-> 0, posted |-> T0] }
MetricValues == {NONE, 0, 9, 10, 49, 50}
PostedValues == {NONE, 0, T0 - ARTICLE_MAX_WAIT_SECONDS,
                 T0 - ARTICLE_MAX_WAIT_SECONDS + 5 * SECONDS_IN_MINUTE, T0}
ObsWide == Obs(MetricValues, MetricValues, PostedValues)
\* Articles that only age: one below the age floor, one at it.
ObsAging ==
    { [score |-> 0, comments |-> 0, posted |-> T0],
      [score |-> ARTICLE_AGE_FLOOR_POINTS, comments |-> 0, posted |-> T0] }
\* The same, and an article whose posting time upstream gives as 0.
ObsEpoch == ObsAging \cup { [score |-> 0, comments |-> 0, posted |-> 0] }

VARIABLES
    clock,      \* time.time()
    nAdv,       \* number of clock advances so far (bounded by MaxAdvances)
    staging,    \* the staging Redis: payload (staged:<id>), index, published
    pending,    \* the pending Redis: pending:<channel_post_id> -> link, with expiry
    channel,    \* the channel's headline posts: message_id -> article id
    pc,         \* per tick: where publish_latest stands
    cand,       \* per tick: candidate_ids
    smap,       \* per tick: staged_map
    todo,       \* per tick: the ids the running loop still has to visit
    now,        \* per tick: now = time.time() of line 297
    grads,      \* per tick: graduates still to process, (staged, reason, extras)
    msg,        \* per tick: channel_post_id of the headline just sent
    held,       \* a StagedArticle a caller got from get_staged_article
    hpc,        \* per handler: where handle_automatic_forward stands
    hev,        \* per handler: origin_msg_id
    hraw,       \* per handler: the link pop_pending_post read
    hsrc,       \* per handler: sender_chat.id of the message being checked
    popLog,     \* per event: results of the pops made while its registration is live
    regAt,      \* per event: when the link was last registered
    pubRegAt,   \* per event: when the tick registered the link
    replies,    \* per event: discussion replies posted
    fresh,      \* per tick: the ids this tick has staged and not yet decided on
    sendFailed, \* the ids for which a send_article_bundle of a tick has failed
    lost,       \* the ids whose payload key has gone from Redis under its index entry
    lastLink    \* per event: the link last registered for it, <<>> if none

storeVars == <<staging, pending, channel>>
tickVars == <<pc, cand, smap, todo, now, grads, msg>>
handlerVars == <<hpc, hev, hraw, hsrc>>
ghostVars == <<popLog, regAt, pubRegAt, replies, fresh, sendFailed, lost, lastLink>>
vars == <<clock, nAdv, staging, pending, channel, pc, cand, smap, todo, now,
          grads, msg, held, hpc, hev, hraw, hsrc, popLog, regAt, pubRegAt, replies, fresh,
          sendFailed, lost, lastLink>>

\* ------------------------------------------------------------- dict helpers
Empty == [i \in {} |-> 0]
Put(f, k, v) == [x \in DOMAIN f \cup {k} |-> IF x = k THEN v ELSE f[x]]
Del(f, k) == [x \in DOMAIN f \ {k} |-> f[x]]

\* Python truthiness of an optional integer: None and 0 are falsy.
Truthy(v) == v # NONE /\ v # 0
OrZero(v) == IF Truthy(v) THEN v ELSE 0

\* -------------------------------------------------- publish/staging_store.py
\* StagedArticle(article, staged_at, last_checked_ts); the article's immutable
\* fields are represented by its id.
StagedArticle(i, o, stagedAt, lastChecked) ==
    [id |-> i, score |-> o.score, comments |-> o.comments, posted |-> o.posted,
     staged_at |-> stagedAt, last_checked |-> lastChecked]

\* What a stored payload of the given kind (UNPARSABLE, MISSHAPEN) looks like
\* to the model, and whether a payload rebuilds into a StagedArticle.
Corrupt(kind) ==
    [id |-> kind, score |-> NONE, comments |-> NONE, posted |-> NONE,
     staged_at |-> NONE, last_checked |-> NONE]
Decodes(v) == v.id >= 0

\* _persist: SET staged:<id> and SADD staged:index in one MULTI/EXEC.
_persist(s, rec) ==
    [s EXCEPT !.payload = Put(s.payload, rec.id, rec),
              !.index = s.index \cup {rec.id}]

\* stage_article: staged_at = last_checked_ts = time.time().
\* A stage_article that stores the record as never checked.
stage_article_unchecked(s, i, o, t) == _persist(s, StagedArticle(i, o, t, 0))
stage_article(s, i, o, t) == _persist(s, StagedArticle(i, o, t, t))

\* An update that stamps staged_at as well.
UpdatedRecord_restamp(staged, d, checkedAt) ==
    [staged EXCEPT
        !.score = IF d.score # NONE THEN d.score ELSE staged.score,
        !.comments = IF d.comments # NONE THEN d.comments ELSE staged.comments,
        !.posted = IF d.posted # NONE THEN d.posted ELSE staged.posted,
        !.staged_at = checkedAt,
        !.last_checked = checkedAt]

\* An update that takes every field from the detail, unknown ones included.
UpdatedRecord_reset(staged, d, checkedAt) ==
    [staged EXCEPT
        !.score = d.score,
        !.comments = d.comments,
        !.posted = d.posted,
        !.last_checked = checkedAt]

\* update_staged_article: the record as rewritten ("is not None" keeps a field).
UpdatedRecord(staged, d, checkedAt) ==
    [staged EXCEPT
        !.score = IF d.score # NONE THEN d.score ELSE staged.score,
        !.comments = IF d.comments # NONE THEN d.comments ELSE staged.comments,
        !.posted = IF d.posted # NONE THEN d.posted ELSE staged.posted,
        !.last_checked = checkedAt]
update_staged_article(s, staged, d, checkedAt) ==
    _persist(s, UpdatedRecord(staged, d, checkedAt))

\* list_staged_articles: SMEMBERS, MGET, then SREM of every id whose payload is
\* missing; sremOk are the ids whose SREM did not raise.
ListedIds(s) == { i \in s.index \cap DOMAIN s.payload : Decodes(s.payload[i]) }
\* The indexed ids on whose payload the listing raises.
RaisingIds(s) == { i \in s.index \cap DOMAIN s.payload : s.payload[i].id = MISSHAPEN }
\* A listing that prunes nothing.
ListPrune_none(s, sremOk) == s

ListPrune(s, sremOk) ==
    [s EXCEPT !.index = s.index \ ((s.index \ DOMAIN s.payload) \cap sremOk)]
\* A listing that returns no record.
ListResult_none(s) == [i \in {} |-> s.payload[i]]

ListResult(s) == [i \in ListedIds(s) |-> s.payload[i]]

\* The orders in which SMEMBERS may return the ids of the index.
MemberOrders(ids) ==
    { q \in [1..Cardinality(ids) -> ids] :
        \A a, b \in 1..Cardinality(ids) : a # b => q[a] # q[b] }

\* list_staged_articles, lines 181-214: the records of the ids, in the order
\* given, whose payload exists.
RECURSIVE Decoded(_, _)
Decoded(s, ids) ==
    IF ids = <<>> THEN <<>>
    ELSE IF Head(ids) \in DOMAIN s.payload /\ Decodes(s.payload[Head(ids)])
           THEN <<s.payload[Head(ids)]>> \o Decoded(s, Tail(ids))
           ELSE Decoded(s, Tail(ids))

\* list.sort(key=staged_at), a stable sort: r goes behind every record that
\* is not staged later than r.
RECURSIVE InsertByStagedAt(_, _)
InsertByStagedAt(q, r) ==
    IF q = <<>> THEN <<r>>
    ELSE IF Head(q).staged_at <= r.staged_at
           THEN <<Head(q)>> \o InsertByStagedAt(Tail(q), r)
           ELSE <<r>> \o q
RECURSIVE SortByStagedAt(_)
SortByStagedAt(q) ==
    IF q = <<>> THEN <<>>
    ELSE InsertByStagedAt(SortByStagedAt(SubSeq(q, 1, Len(q) - 1)), q[Len(q)])

\* A listing that leaves out the final sort.
list_staged_articles_unsorted(s) ==
    { Decoded(s, ids) : ids \in MemberOrders(s.index) }

\* list_staged_articles, when no call raises: the lists it may return.
list_staged_articles(s) ==
    { SortByStagedAt(Decoded(s, ids)) : ids \in MemberOrders(s.index) }

\* is_published: SISMEMBER; False when the call raises.
is_published(s, i, ok) == ok /\ i \in s.published

\* A mark_published that forgets the SADD to the published set.
mark_published_nosadd(s, i) ==
    [payload |-> Del(s.payload, i),
     index |-> s.index \ {i},
     published |-> s.published]

\* A mark_published that forgets the SREM of the index.
mark_published_nosrem(s, i) ==
    [payload |-> Del(s.payload, i),
     index |-> s.index,
     published |-> s.published \cup {i}]

\* mark_published: DEL, SREM, SADD in one MULTI/EXEC.
mark_published(s, i) ==
    [payload |-> Del(s.payload, i),
     index |-> s.index \ {i},
     published |-> s.published \cup {i}]

\* ensure_published: SADD published, staging untouched.
ensure_published(s, ids) == [s EXCEPT !.published = s.published \cup ids]

\* A clear_stage that also takes the id out of the published set.
clear_stage_unpublish(s, i) ==
    [payload |-> Del(s.payload, i),
     index |-> s.index \ {i},
     published |-> s.published \ {i}]

\* A clear_stage that also records the id as published.
clear_stage_publish(s, i) ==
    [payload |-> Del(s.payload, i),
     index |-> s.index \ {i},
     published |-> s.published \cup {i}]

\* clear_stage: DEL and SREM in one MULTI/EXEC.
clear_stage(s, i) ==
    [s EXCEPT !.payload = Del(s.payload, i), !.index = s.index \ {i}]

\* -------------------------------------------------- publish/pending_store.py
\* SET pending:<id> payload EX ttl: the key lives until t + ttl.
PendingTtl == PENDING_REDIS_TTL

\* A store_pending_post whose key outlives the window (a wrong EX argument).
store_pending_post_long(pd, ev, aid, dest, t) ==
    Put(pd, ev, [aid |-> aid, dest |-> dest, exp |-> t + 2 * PendingTtl])

\* A store_pending_post that keeps a link already there (SET ... NX).
store_pending_post_nx(pd, ev, aid, dest, t) ==
    IF ev \in DOMAIN pd
      THEN pd
      ELSE Put(pd, ev, [aid |-> aid, dest |-> dest, exp |-> t + PendingTtl])

store_pending_post(pd, ev, aid, dest, t) ==
    Put(pd, ev, [aid |-> aid, dest |-> dest, exp |-> t + PendingTtl])

\* What Redis still holds at time t (expired keys are gone).
Unexpired(pd, t) == [e \in {x \in DOMAIN pd : pd[x].exp > t} |-> pd[e]]

\* ------------------------------------------------------------------ tasks.py
\* A policy that keeps every record.
_should_graduate_never(staged, t) == "keep"

\* _should_graduate: the reason, or "keep".
_should_graduate(staged, t) ==
    LET score == OrZero(staged.score)
        comments == OrZero(staged.comments)
        aged == /\ Truthy(staged.posted)
                /\ (IF t - staged.posted > 0 THEN t - staged.posted ELSE 0)
                        >= ARTICLE_MAX_WAIT_SECONDS
    IN  IF score >= ARTICLE_MIN_POINTS THEN "score"
        ELSE IF comments >= ARTICLE_MIN_COMMENTS THEN "comments"
        ELSE IF aged THEN "age"
        ELSE "keep"

\* The (staged, reason, extras) tuple publish_latest collects for a graduate.
Graduate(staged, t) ==
    [staged |-> staged, reason |-> _should_graduate(staged, t),
     score |-> OrZero(staged.score), comments |-> OrZero(staged.comments)]

\* A floor check that drops an aged graduate below either floor.
Discards_either(g) ==
    /\ g.reason = "age"
    /\ (g.score < ARTICLE_AGE_FLOOR_POINTS \/ g.comments < ARTICLE_AGE_FLOOR_COMMENTS)

\* _publish_graduates, lines 193-195: an aged graduate below both floors.
Discards(g) ==
    /\ g.reason = "age"
    /\ g.score < ARTICLE_AGE_FLOOR_POINTS
    /\ g.comments < ARTICLE_AGE_FLOOR_COMMENTS

\* The graduates in any order (the sort left out).
Unsorted(gs) ==
    { q \in [1..Cardinality(gs) -> gs] :
        \A a, b \in 1..Cardinality(gs) : a # b => q[a] # q[b] }

\* graduates.sort(key=staged_at): the orders a sort by staged_at can give.
SortedByStagedAt(gs) ==
    { q \in [1..Cardinality(gs) -> gs] :
        /\ \A a, b \in 1..Cardinality(gs) : a # b => q[a] # q[b]
        /\ \A a, b \in 1..Cardinality(gs) : a < b => q[a].staged.staged_at <= q[b].staged.staged_at }

\* A refresh gate that lets a record pass only after more than the interval.
NeedsRefresh_strict(staged, t) ==
    t - staged.last_checked > ARTICLE_METRIC_REFRESH_SECONDS

\* _refresh_metrics, line 118: the refresh gate.
NeedsRefresh(staged, t) == t - staged.last_checked >= ARTICLE_METRIC_REFRESH_SECONDS

NoDetail == [score |-> NONE, comments |-> NONE, posted |-> NONE]

\* The tick has returned: its locals are gone.  (A local is also cleared as soon
\* as the code no longer reads it: candidate_ids after the filter, staged_map
\* and now once the graduates are collected.)
TickReturn(p) ==
    /\ pc' = [pc EXCEPT ![p] = "idle"]
    /\ cand' = [cand EXCEPT ![p] = {}]
    /\ smap' = [smap EXCEPT ![p] = Empty]
    /\ todo' = [todo EXCEPT ![p] = {}]
    /\ now' = [now EXCEPT ![p] = NONE]
    /\ grads' = [grads EXCEPT ![p] = <<>>]
    /\ msg' = [msg EXCEPT ![p] = NONE]

\* publish_latest, lines 274-289: fetch the ranked ids, list the staged set.
\* U: the ids upstream may rank; F: the outcomes a fallible call may have.
TickStart(p, U, F) ==
    /\ pc[p] = "idle"
    /\ \E c \in SUBSET U, listOk \in F :
        \E sremOk \in {s \in SUBSET (staging.index \ DOMAIN staging.payload) :
                          FALSE \in F \/ s = staging.index \ DOMAIN staging.payload} :
            /\ cand' = [cand EXCEPT ![p] = c]
            /\ IF listOk
                 THEN /\ RaisingIds(staging) = {}
                      /\ staging' = ListPrune(staging, sremOk)
                      /\ smap' = [smap EXCEPT ![p] = ListResult(staging)]
                 ELSE /\ staging' = staging
                      /\ smap' = [smap EXCEPT ![p] = Empty]
    /\ pc' = [pc EXCEPT ![p] = "filter"]
    /\ UNCHANGED <<clock, nAdv, pending, channel, todo, now, grads, msg, held,
                   handlerVars, ghostVars>>

\* publish_latest, line 282: list_staged_articles raises on a payload of
\* another shape (staging_store.py lines 201-206); the SREMs of the ids visited
\* before it are done.
TickListRaises(p) ==
    /\ pc[p] = "idle"
    /\ RaisingIds(staging) # {}
    /\ \E sremOk \in SUBSET (staging.index \ DOMAIN staging.payload) :
            staging' = ListPrune(staging, sremOk)
    /\ pc' = [pc EXCEPT ![p] = "raised"]
    /\ UNCHANGED <<clock, nAdv, pending, channel, cand, smap, todo, now, grads, msg,
                   held, handlerVars, ghostVars>>

\* publish_latest, line 278, and _get_telegram, lines 41-50: in a worker
\* started without TG_TOKEN the tick raises RuntimeError.
TickNoToken(p) ==
    /\ pc[p] = "idle"
    /\ pc' = [pc EXCEPT ![p] = "raised"]
    /\ UNCHANGED <<clock, nAdv, storeVars, cand, smap, todo, now, grads, msg,
                   held, handlerVars, ghostVars>>

\* The exception has left publish_latest; the worker is ready for the next beat.
TickAbort(p) ==
    /\ pc[p] = "raised"
    /\ TickReturn(p)
    /\ UNCHANGED <<clock, nAdv, storeVars, held, handlerVars, ghostVars>>

\* An interrupt that also drops the staged record of the graduate at hand.
TickInterrupt_forget(p) ==
    /\ pc[p] \in {"pending", "mark"}
    /\ staging' = clear_stage(staging, Head(grads[p]).staged.id)
    /\ TickReturn(p)
    /\ UNCHANGED <<clock, nAdv, pending, channel, held, handlerVars, ghostVars>>

\* _publish_graduates, lines 228-254: the worker process is killed between the
\* return of send_article_bundle and the call of mark_published.  Nothing is
\* rolled back: Redis and the channel stay as they are, the locals are gone.
TickInterrupt(p) ==
    /\ pc[p] \in {"pending", "mark"}
    /\ TickReturn(p)
    /\ UNCHANGED <<clock, nAdv, storeVars, held, handlerVars, ghostVars>>

\* _stage_new_articles, lines 81-96: filter the candidates, fetch their articles.
TickFilter(p, F) ==
    /\ pc[p] = "filter"
    /\ \E failed \in {s \in SUBSET (cand[p] \ DOMAIN smap[p]) : FALSE \in F \/ s = {}} :
        LET pending_ids == { i \in cand[p] \ DOMAIN smap[p] :
                               ~is_published(staging, i, i \notin failed) }
        IN  \E got \in SUBSET pending_ids :
                /\ todo' = [todo EXCEPT ![p] = got]
                /\ pc' = [pc EXCEPT ![p] = IF got = {} THEN "refresh" ELSE "stage"]
    /\ cand' = [cand EXCEPT ![p] = {}]
    /\ UNCHANGED <<clock, nAdv, storeVars, smap, now, grads, msg, held,
                   handlerVars, ghostVars>>

\* A staging loop that keeps the article in the tick's map although its write
\* failed.
TickStageOne_optimistic(p, O, F) ==
    /\ pc[p] = "stage"
    /\ \E i \in todo[p], o \in O, ok \in F :
        /\ IF ok
             THEN /\ staging' = stage_article(staging, i, o, clock)
                  /\ fresh' = [fresh EXCEPT ![p] = fresh[p] \cup {i}]
             ELSE UNCHANGED <<staging, fresh>>
        /\ smap' = [smap EXCEPT ![p] = Put(smap[p], i, StagedArticle(i, o, clock, clock))]
        /\ todo' = [todo EXCEPT ![p] = todo[p] \ {i}]
        /\ pc' = [pc EXCEPT ![p] = IF todo[p] = {i} THEN "refresh" ELSE "stage"]
    /\ UNCHANGED <<clock, nAdv, pending, channel, cand, now, grads, msg, held,
                   handlerVars, popLog, regAt, pubRegAt, replies, sendFailed, lost, lastLink>>

\* _stage_new_articles, lines 99-107: stage one fetched article.
TickStageOne(p, O, F) ==
    /\ pc[p] = "stage"
    /\ \E i \in todo[p], o \in O, ok \in F :
        /\ IF ok
             THEN /\ staging' = stage_article(staging, i, o, clock)
                  /\ smap' = [smap EXCEPT ![p] =
                                 Put(smap[p], i, StagedArticle(i, o, clock, clock))]
                  /\ fresh' = [fresh EXCEPT ![p] = fresh[p] \cup {i}]
             ELSE UNCHANGED <<staging, smap, fresh>>
        /\ todo' = [todo EXCEPT ![p] = todo[p] \ {i}]
        /\ pc' = [pc EXCEPT ![p] = IF todo[p] = {i} THEN "refresh" ELSE "stage"]
    /\ UNCHANGED <<clock, nAdv, pending, channel, cand, now, grads, msg, held,
                   handlerVars, popLog, regAt, pubRegAt, replies, sendFailed, lost, lastLink>>

\* A tick that gives up when the metrics cannot be fetched.
TickRefresh_abort(p, F) ==
    /\ pc[p] = "refresh"
    /\ IF DOMAIN smap[p] = {}
         THEN TickReturn(p)
         ELSE LET refresh_ids == { i \in DOMAIN smap[p] : NeedsRefresh(smap[p][i], clock) }
              IN  \E fetched \in F :
                    IF refresh_ids # {} /\ ~fetched
                      THEN TickReturn(p)
                      ELSE /\ now' = [now EXCEPT ![p] = clock]
                           /\ IF refresh_ids # {}
                                THEN /\ todo' = [todo EXCEPT ![p] = refresh_ids]
                                     /\ pc' = [pc EXCEPT ![p] = "update"]
                                ELSE /\ todo' = todo
                                     /\ pc' = [pc EXCEPT ![p] = "decide"]
                           /\ UNCHANGED <<cand, smap, grads, msg>>
    /\ UNCHANGED <<clock, nAdv, storeVars, held, handlerVars, ghostVars>>

\* publish_latest lines 293-298 and _refresh_metrics lines 115-128.
TickRefresh(p, F) ==
    /\ pc[p] = "refresh"
    /\ IF DOMAIN smap[p] = {}
         THEN TickReturn(p)
         ELSE LET refresh_ids == { i \in DOMAIN smap[p] : NeedsRefresh(smap[p][i], clock) }
              IN  /\ now' = [now EXCEPT ![p] = clock]
                  /\ \E fetched \in F :
                        IF refresh_ids # {} /\ fetched
                          THEN /\ todo' = [todo EXCEPT ![p] = refresh_ids]
                               /\ pc' = [pc EXCEPT ![p] = "update"]
                          ELSE /\ todo' = todo
                               /\ pc' = [pc EXCEPT ![p] = "decide"]
                  /\ UNCHANGED <<cand, smap, grads, msg>>
    /\ UNCHANGED <<clock, nAdv, storeVars, held, handlerVars, ghostVars>>

\* A refresh that writes the store and leaves the tick's map as it was listed.
TickUpdateOne_storeonly(p, O, F) ==
    /\ pc[p] = "update"
    /\ \E i \in todo[p], d \in O \cup {NoDetail}, ok \in F :
        /\ IF ok
             THEN /\ staging' = update_staged_article(staging, smap[p][i], d, now[p])
                  /\ smap' = smap
             ELSE UNCHANGED <<staging, smap>>
        /\ todo' = [todo EXCEPT ![p] = todo[p] \ {i}]
        /\ pc' = [pc EXCEPT ![p] = IF todo[p] = {i} THEN "decide" ELSE "update"]
    /\ UNCHANGED <<clock, nAdv, pending, channel, cand, now, grads, msg, held,
                   handlerVars, ghostVars>>

\* _refresh_metrics, lines 136-149: rewrite one staged record.
TickUpdateOne(p, O, F) ==
    /\ pc[p] = "update"
    /\ \E i \in todo[p], d \in O \cup {NoDetail}, ok \in F :
        /\ IF ok
             THEN /\ staging' = update_staged_article(staging, smap[p][i], d, now[p])
                  /\ smap' = [smap EXCEPT ![p] =
                                 Put(smap[p], i, UpdatedRecord(smap[p][i], d, now[p]))]
             ELSE UNCHANGED <<staging, smap>>
        /\ todo' = [todo EXCEPT ![p] = todo[p] \ {i}]
        /\ pc' = [pc EXCEPT ![p] = IF todo[p] = {i} THEN "decide" ELSE "update"]
    /\ UNCHANGED <<clock, nAdv, pending, channel, cand, now, grads, msg, held,
                   handlerVars, ghostVars>>

\* publish_latest, lines 300-310: decide, collect and sort the graduates.
TickDecide(p) ==
    /\ pc[p] = "decide"
    /\ LET graduates == { Graduate(smap[p][i], now[p]) : i \in DOMAIN smap[p] }
           chosen == { g \in graduates : g.reason # "keep" }
       IN  IF chosen = {}
             THEN TickReturn(p)
             ELSE /\ \E q \in SortedByStagedAt(chosen) :
                        grads' = [grads EXCEPT ![p] = q]
                  /\ pc' = [pc EXCEPT ![p] = "send"]
                  /\ smap' = [smap EXCEPT ![p] = Empty]
                  /\ now' = [now EXCEPT ![p] = NONE]
                  /\ UNCHANGED <<cand, todo, msg>>
    /\ fresh' = [fresh EXCEPT ![p] = {}]
    /\ UNCHANGED <<clock, nAdv, storeVars, held, handlerVars,
                   popLog, regAt, pubRegAt, replies, sendFailed, lost, lastLink>>

\* The loop of _publish_graduates moves to the next graduate, or returns.
NextGraduate(p) ==
    IF Len(grads[p]) = 1
      THEN TickReturn(p)
      ELSE /\ grads' = [grads EXCEPT ![p] = Tail(grads[p])]
           /\ pc' = [pc EXCEPT ![p] = "send"]
           /\ msg' = [msg EXCEPT ![p] = NONE]
           /\ UNCHANGED <<cand, smap, todo, now>>

\* _publish_graduates, lines 193-211: an aged, low-engagement graduate is dropped.
TickDiscard(p, F) ==
    /\ pc[p] = "send"
    /\ Discards(Head(grads[p]))
    /\ \E ok \in F :
        staging' = IF ok THEN mark_published(staging, Head(grads[p]).staged.id) ELSE staging
    /\ NextGraduate(p)
    /\ UNCHANGED <<clock, nAdv, pending, channel, held, handlerVars, ghostVars>>

\* A loop that a failed send leaves: the graduates behind it are not reached.
TickSend_abort(p, F) ==
    /\ pc[p] = "send"
    /\ ~Discards(Head(grads[p]))
    /\ \E sent \in F, withId \in F :
        IF sent
          THEN /\ Len(channel) < MaxPosts
               /\ channel' = Append(channel, Head(grads[p]).staged.id)
               /\ msg' = [msg EXCEPT ![p] = IF withId THEN Len(channel) + 1 ELSE NONE]
               /\ pc' = [pc EXCEPT ![p] = "pending"]
               /\ UNCHANGED <<cand, smap, todo, now, grads, sendFailed>>
          ELSE /\ withId
               /\ channel' = channel
               /\ sendFailed' = sendFailed \cup {Head(grads[p]).staged.id}
               /\ TickReturn(p)
    /\ UNCHANGED <<clock, nAdv, staging, pending, held, handlerVars,
                   popLog, regAt, pubRegAt, replies, fresh, lost, lastLink>>

\* _publish_graduates, lines 212-236: send_article_bundle to the channel.
\* A sent headline gets the next message_id; the reply may lack it (withId).
TickSend(p, F) ==
    /\ pc[p] = "send"
    /\ ~Discards(Head(grads[p]))
    /\ \E sent \in F, withId \in F :
        IF sent
          THEN /\ Len(channel) < MaxPosts
               /\ channel' = Append(channel, Head(grads[p]).staged.id)
               /\ msg' = [msg EXCEPT ![p] = IF withId THEN Len(channel) + 1 ELSE NONE]
               /\ pc' = [pc EXCEPT ![p] = "pending"]
               /\ UNCHANGED <<cand, smap, todo, now, grads, sendFailed>>
          ELSE /\ withId
               /\ channel' = channel
               /\ sendFailed' = sendFailed \cup {Head(grads[p]).staged.id}
               /\ NextGraduate(p)
    /\ UNCHANGED <<clock, nAdv, staging, pending, held, handlerVars,
                   popLog, regAt, pubRegAt, replies, fresh, lost, lastLink>>

\* A loop that gives up on the graduate when its link cannot be registered.
TickStorePending_strict(p, F) ==
    /\ pc[p] = "pending"
    /\ \E ok \in F :
        IF msg[p] # NONE /\ ok
          THEN /\ pending' = store_pending_post(pending, msg[p], Head(grads[p]).staged.id,
                                                DEST, clock)
               /\ popLog' = [popLog EXCEPT ![msg[p]] = <<>>]
               /\ regAt' = [regAt EXCEPT ![msg[p]] = clock]
               /\ pubRegAt' = [pubRegAt EXCEPT ![msg[p]] = clock]
               /\ lastLink' = [lastLink EXCEPT ![msg[p]] =
                                  <<[aid |-> Head(grads[p]).staged.id, dest |-> DEST,
                                     at |-> clock]>>]
               /\ pc' = [pc EXCEPT ![p] = "mark"]
               /\ UNCHANGED <<cand, smap, todo, now, grads, msg>>
          ELSE /\ msg[p] = NONE => ok
               /\ NextGraduate(p)
               /\ UNCHANGED <<pending, popLog, regAt, pubRegAt, lastLink>>
    /\ UNCHANGED <<clock, nAdv, staging, channel, held, handlerVars, replies, fresh,
                   sendFailed, lost>>

\* _publish_graduates, lines 238-252: store_pending_post for the headline.
TickStorePending(p, F) ==
    /\ pc[p] = "pending"
    /\ \E ok \in F :
        IF msg[p] # NONE /\ ok
          THEN /\ pending' = store_pending_post(pending, msg[p], Head(grads[p]).staged.id,
                                                DEST, clock)
               /\ popLog' = [popLog EXCEPT ![msg[p]] = <<>>]
               /\ regAt' = [regAt EXCEPT ![msg[p]] = clock]
               /\ pubRegAt' = [pubRegAt EXCEPT ![msg[p]] = clock]
               /\ lastLink' = [lastLink EXCEPT ![msg[p]] =
                                  <<[aid |-> Head(grads[p]).staged.id, dest |-> DEST,
                                     at |-> clock]>>]
          ELSE /\ msg[p] = NONE => ok
               /\ UNCHANGED <<pending, popLog, regAt, pubRegAt, lastLink>>
    /\ pc' = [pc EXCEPT ![p] = "mark"]
    /\ UNCHANGED <<clock, nAdv, staging, channel, cand, smap, todo, now, grads, msg,
                   held, handlerVars, replies, fresh, sendFailed, lost>>

\* _publish_graduates, lines 254-266: mark_published after the publish.
TickMark(p, F) ==
    /\ pc[p] = "mark"
    /\ \E ok \in F :
        staging' = IF ok THEN mark_published(staging, Head(grads[p]).staged.id) ELSE staging
    /\ NextGraduate(p)
    /\ UNCHANGED <<clock, nAdv, pending, channel, held, handlerVars, ghostVars>>

Tick(p, U, O, F) ==
    \/ TickStart(p, U, F)
    \/ TickFilter(p, F)
    \/ TickStageOne(p, O, F)
    \/ TickRefresh(p, F)
    \/ TickUpdateOne(p, O, F)
    \/ TickDecide(p)
    \/ TickDiscard(p, F)
    \/ TickSend(p, F)
    \/ TickStorePending(p, F)
    \/ TickMark(p, F)

\* ------------------------------------------------------ publish/handlers.py
\* A pop's result enters the log while the registration it reads is live.
Logged(e, res) ==
    IF regAt[e] >= 0 /\ Len(popLog[e]) < MaxPopLog
      THEN [popLog EXCEPT ![e] = Append(popLog[e], res)]
      ELSE popLog

\* handle_automatic_forward, lines 432-468: the auto-forward of a channel post
\* arrives (Telegram may deliver it late, or twice).
HStart(h) ==
    /\ hpc[h] = "idle"
    /\ \E e \in 1..Len(channel) :
        hev' = [hev EXCEPT ![h] = e]
    /\ hpc' = [hpc EXCEPT ![h] = "get"]
    /\ UNCHANGED <<clock, nAdv, hsrc, storeVars, tickVars, held, hraw, ghostVars>>

\* pop_pending_post, lines 87-99: GET pending:<id>.
HGet(h, F) ==
    /\ hpc[h] = "get"
    /\ \E ok \in F :
        IF ok /\ hev[h] \in DOMAIN Unexpired(pending, clock)
          THEN /\ hraw' = [hraw EXCEPT ![h] = <<pending[hev[h]]>>]
               /\ hpc' = [hpc EXCEPT ![h] = "delete"]
               /\ UNCHANGED <<hev, popLog>>
          ELSE /\ hraw' = [hraw EXCEPT ![h] = <<>>]
               /\ hpc' = [hpc EXCEPT ![h] = "idle"]
               /\ hev' = [hev EXCEPT ![h] = NONE]
               /\ popLog' = Logged(hev[h], "absent")
    /\ UNCHANGED <<clock, nAdv, hsrc, storeVars, tickVars, held, regAt, pubRegAt, replies,
                   fresh, sendFailed, lost, lastLink>>

\* pop_pending_post, lines 101-149: DEL pending:<id> (a failure is only logged),
\* then the link is returned.
HDelete(h, F) ==
    /\ hpc[h] = "delete"
    /\ \E ok \in F :
        pending' = IF ok THEN Del(pending, hev[h]) ELSE pending
    /\ popLog' = Logged(hev[h], "link")
    /\ hpc' = [hpc EXCEPT ![h] = "reply"]
    /\ UNCHANGED <<clock, nAdv, hsrc, staging, channel, tickVars, held, hev, hraw,
                   regAt, pubRegAt, replies, fresh, sendFailed, lost, lastLink>>

\* handle_automatic_forward, lines 480-501: send_comment_bundle.
HReply(h, F) ==
    /\ hpc[h] = "reply"
    /\ \E ok \in F :
        IF ok
          THEN /\ replies' = [replies EXCEPT ![hev[h]] =
                                 IF @ < MaxReplies THEN @ + 1 ELSE @]
               /\ hpc' = [hpc EXCEPT ![h] = "idle"]
               /\ hev' = [hev EXCEPT ![h] = NONE]
               /\ hraw' = [hraw EXCEPT ![h] = <<>>]
          ELSE /\ hpc' = [hpc EXCEPT ![h] = "restore"]
               /\ UNCHANGED <<replies, hev, hraw>>
    /\ UNCHANGED <<clock, nAdv, hsrc, storeVars, tickVars, held, popLog, regAt, pubRegAt,
                   fresh, sendFailed, lost, lastLink>>

\* A handler that gives the link up when the reply fails.
HRestore_skip(h, F) ==
    /\ hpc[h] = "restore"
    /\ hpc' = [hpc EXCEPT ![h] = "idle"]
    /\ hev' = [hev EXCEPT ![h] = NONE]
    /\ hraw' = [hraw EXCEPT ![h] = <<>>]
    /\ UNCHANGED <<clock, nAdv, hsrc, storeVars, tickVars, held, ghostVars>>

\* handle_automatic_forward, lines 503-515: the link is registered again.
HRestore(h, F) ==
    /\ hpc[h] = "restore"
    /\ \E ok \in F :
        IF ok
          THEN /\ pending' = store_pending_post(pending, hev[h], hraw[h][1].aid,
                                                hraw[h][1].dest, clock)
               /\ popLog' = [popLog EXCEPT ![hev[h]] = <<>>]
               /\ regAt' = [regAt EXCEPT ![hev[h]] = clock]
               /\ lastLink' = [lastLink EXCEPT ![hev[h]] =
                                  <<[aid |-> hraw[h][1].aid, dest |-> hraw[h][1].dest,
                                     at |-> clock]>>]
          ELSE UNCHANGED <<pending, popLog, regAt, lastLink>>
    /\ hpc' = [hpc EXCEPT ![h] = "idle"]
    /\ hev' = [hev EXCEPT ![h] = NONE]
    /\ hraw' = [hraw EXCEPT ![h] = <<>>]
    /\ UNCHANGED <<clock, nAdv, hsrc, staging, channel, tickVars, held, pubRegAt, replies,
                   fresh, sendFailed, lost>>

\* A handler that does not compare the sender with CHANNEL_ID.
HCheck_lenient(h) ==
    /\ hpc[h] = "check"
    /\ IF hev[h] = NONE
         THEN /\ hpc' = [hpc EXCEPT ![h] = "idle"]
              /\ UNCHANGED hev
         ELSE /\ hpc' = [hpc EXCEPT ![h] = "get"]
              /\ UNCHANGED hev
    /\ hsrc' = [hsrc EXCEPT ![h] = NONE]
    /\ UNCHANGED <<clock, nAdv, storeVars, tickVars, held, hraw, ghostVars>>

\* handle_automatic_forward, lines 432-448: an automatic forward arrives in the
\* discussion chat, from the channel or from another one, with the id of a
\* channel post as its origin or with none.
HReceive(h) ==
    /\ hpc[h] = "idle"
    /\ \E src \in SourceChannels, origin \in (1..Len(channel)) \cup {NONE} :
        /\ hsrc' = [hsrc EXCEPT ![h] = src]
        /\ hev' = [hev EXCEPT ![h] = origin]
    /\ hpc' = [hpc EXCEPT ![h] = "check"]
    /\ UNCHANGED <<clock, nAdv, storeVars, tickVars, held, hraw, ghostVars>>

\* handle_automatic_forward, lines 450-468: a forward from another channel, or
\* one without origin message id, is dropped; otherwise the link is claimed.
HCheck(h) ==
    /\ hpc[h] = "check"
    /\ IF hsrc[h] # CHANNEL_ID \/ hev[h] = NONE
         THEN /\ hpc' = [hpc EXCEPT ![h] = "idle"]
              /\ hev' = [hev EXCEPT ![h] = NONE]
         ELSE /\ hpc' = [hpc EXCEPT ![h] = "get"]
              /\ UNCHANGED hev
    /\ hsrc' = [hsrc EXCEPT ![h] = NONE]
    /\ UNCHANGED <<clock, nAdv, storeVars, tickVars, held, hraw, ghostVars>>

Handler(h, F) ==
    \/ HStart(h)
    \/ HGet(h, F)
    \/ HDelete(h, F)
    \/ HReply(h, F)
    \/ HRestore(h, F)

\* ------------------------------------------- direct calls of the staging store
AllIdle == \A p \in Procs : pc[p] = "idle"

\* mark_published(article_id), called directly.
CallMarkPublished(F) ==
    /\ AllIdle
    /\ \E i \in Ids, ok \in F :
        staging' = IF ok THEN mark_published(staging, i) ELSE staging
    /\ UNCHANGED <<clock, nAdv, pending, channel, tickVars, held, handlerVars, ghostVars>>

\* ensure_published(article_ids); an empty list returns at once.
CallEnsurePublished(F) ==
    /\ AllIdle
    /\ \E ids \in SUBSET Ids \ {{}}, ok \in F :
        staging' = IF ok THEN ensure_published(staging, ids) ELSE staging
    /\ UNCHANGED <<clock, nAdv, pending, channel, tickVars, held, handlerVars, ghostVars>>

\* clear_stage(article_id).
CallClearStage(F) ==
    /\ AllIdle
    /\ \E i \in Ids, ok \in F :
        staging' = IF ok THEN clear_stage(staging, i) ELSE staging
    /\ UNCHANGED <<clock, nAdv, pending, channel, tickVars, held, handlerVars, ghostVars>>

\* get_staged_article(article_id): the caller keeps the StagedArticle, or None.
CallGetStaged(F) ==
    /\ AllIdle
    /\ \E i \in Ids, ok \in F :
        held' = IF ok /\ i \in DOMAIN staging.payload /\ Decodes(staging.payload[i])
                  THEN <<staging.payload[i]>> ELSE <<>>
    /\ UNCHANGED <<clock, nAdv, storeVars, tickVars, handlerVars, ghostVars>>

\* update_staged_article(staged, ...), called with the StagedArticle kept.
CallUpdateStaged(O, F) ==
    /\ AllIdle
    /\ held # <<>>
    /\ \E d \in O \cup {NoDetail}, ok \in F :
        staging' = IF ok THEN update_staged_article(staging, held[1], d, clock)
                         ELSE staging
    /\ held' = <<>>
    /\ UNCHANGED <<clock, nAdv, pending, channel, tickVars, handlerVars, ghostVars>>

\* store_pending_post(channel_post_id, article, discussion_chat_id), called
\* directly between ticks for a channel post, with any article and destination.
CallStorePending(F) ==
    /\ AllIdle
    /\ \E e \in 1..Len(channel), aid \in Ids, dest \in Dests, ok \in F :
        IF ok
          THEN /\ pending' = store_pending_post(pending, e, aid, dest, clock)
               /\ popLog' = [popLog EXCEPT ![e] = <<>>]
               /\ regAt' = [regAt EXCEPT ![e] = clock]
               /\ lastLink' = [lastLink EXCEPT ![e] =
                                  <<[aid |-> aid, dest |-> dest, at |-> clock]>>]
          ELSE UNCHANGED <<pending, popLog, regAt, lastLink>>
    /\ UNCHANGED <<clock, nAdv, staging, channel, tickVars, held, handlerVars,
                   pubRegAt, replies, fresh, sendFailed, lost>>

\* ------------------------------------------------------- Redis, from outside
\* The key staged:<id> goes (evicted, or deleted by hand) while the id stays in
\* the index: the drift list_staged_articles, lines 182-190, is written for.
LosePayload ==
    /\ \E i \in DOMAIN staging.payload \cap staging.index :
        /\ staging' = [staging EXCEPT !.payload = Del(staging.payload, i)]
        /\ lost' = lost \cup {i}
    /\ UNCHANGED <<clock, nAdv, pending, channel, tickVars, held, handlerVars,
                   popLog, regAt, pubRegAt, replies, fresh, sendFailed, lastLink>>

\* The value of staged:<id> is one the program did not write (another writer,
\* an older schema): the case of list_staged_articles, lines 191-213.
CorruptPayload ==
    /\ \E i \in DOMAIN staging.payload \cap staging.index,
          kind \in {UNPARSABLE, MISSHAPEN} :
        /\ Decodes(staging.payload[i])
        /\ staging' = [staging EXCEPT !.payload = Put(staging.payload, i, Corrupt(kind))]
    /\ UNCHANGED <<clock, nAdv, pending, channel, tickVars, held, handlerVars,
                   ghostVars>>

\* ------------------------------------------------------------------- time
\* A registration time, once its window of PENDING_REDIS_TTL is over at time t.
WindowAt(r, t) == IF r >= 0 /\ t >= r + PENDING_REDIS_TTL THEN EXPIRED ELSE r

\* Time passes; Redis drops the pending keys whose expiry is reached.
Advance(maxAdv) ==
    /\ nAdv < maxAdv
    /\ \E d \in Deltas :
        /\ clock' = clock + d
        /\ pending' = Unexpired(pending, clock + d)
        /\ regAt' = [e \in Events |-> WindowAt(regAt[e], clock + d)]
        /\ pubRegAt' = [e \in Events |-> WindowAt(pubRegAt[e], clock + d)]
    /\ nAdv' = nAdv + 1
    /\ UNCHANGED <<staging, channel, tickVars, held, handlerVars, popLog, replies,
                   fresh, sendFailed, lost, lastLink>>

\* ------------------------------------------------------------ specifications
Init ==
    /\ clock = T0
    /\ nAdv = 0
    /\ staging = [payload |-> Empty, index |-> {}, published |-> {}]
    /\ pending = Empty
    /\ channel = <<>>
    /\ pc = [p \in Procs |-> "idle"]
    /\ cand = [p \in Procs |-> {}]
    /\ smap = [p \in Procs |-> Empty]
    /\ todo = [p \in Procs |-> {}]
    /\ now = [p \in Procs |-> NONE]
    /\ grads = [p \in Procs |-> <<>>]
    /\ msg = [p \in Procs |-> NONE]
    /\ held = <<>>
    /\ hpc = [h \in Handlers |-> "idle"]
    /\ hev = [h \in Handlers |-> NONE]
    /\ hraw = [h \in Handlers |-> <<>>]
    /\ hsrc = [h \in Handlers |-> NONE]
    /\ popLog = [e \in Events |-> <<>>]
    /\ regAt = [e \in Events |-> NONE]
    /\ pubRegAt = [e \in Events |-> NONE]
    /\ replies = [e \in Events |-> 0]
    /\ fresh = [p \in Procs |-> {}]
    /\ sendFailed = {}
    /\ lost = {}
    /\ lastLink = [e \in Events |-> <<>>]

\* One scheduler (ticks never overlap) and direct calls of the staging store
\* between ticks; every Redis, upstream and Telegram call may fail.
Next ==
    \/ Tick(1, Ids, ObsSmall, BOOLEAN)
    \/ CallMarkPublished(BOOLEAN)
    \/ CallEnsurePublished(BOOLEAN)
    \/ CallClearStage(BOOLEAN)
    \/ CallGetStaged(BOOLEAN)
    \/ CallUpdateStaged(ObsSmall, BOOLEAN)
    \/ Advance(MaxAdvances)

Spec == Init /\ [][Next]_vars

\* The same, with every call succeeding.
NextCalls ==
    \/ Tick(1, Ids, ObsSmall, {TRUE})
    \/ CallMarkPublished({TRUE})
    \/ CallEnsurePublished({TRUE})
    \/ CallClearStage({TRUE})
    \/ CallGetStaged({TRUE})
    \/ CallUpdateStaged(ObsSmall, {TRUE})
    \/ Advance(MaxAdvances)

SpecCalls == Init /\ [][NextCalls]_vars

\* The scheduler alone: non-overlapping ticks, every call may fail.
NextTicks ==
    \/ Tick(1, Ids, ObsSmall, BOOLEAN)
    \/ Advance(MaxAdvances)

SpecTicks == Init /\ [][NextTicks]_vars

\* The publish-to-reply bridge: a scheduler whose calls succeed, and one bot
\* process whose Redis and Telegram calls may fail.
NextBridge ==
    \/ Tick(1, {1}, ObsSmall, {TRUE})
    \/ Handler(1, BOOLEAN)
    \/ Advance(MaxBridgeAdvances)

SpecBridge == Init /\ [][NextBridge]_vars

\* Two bot processes handling notifications at once; no call fails.
HandlerNoFail(h) ==
    \/ HStart(h)
    \/ HGet(h, {TRUE})
    \/ HDelete(h, {TRUE})
    \/ HReply(h, {TRUE})

NextRace ==
    \/ Tick(1, {1}, ObsSmall, {TRUE})
    \/ HandlerNoFail(1)
    \/ HandlerNoFail(2)
    \/ Advance(MaxAdvances)

SpecRace == Init /\ [][NextRace]_vars

\* The graduation policy over the whole range of metrics: one article, whose
\* score, comment count and posting time upstream reports freely; no call fails.
NextPolicy ==
    \/ Tick(1, {1}, ObsWide, {TRUE})
    \/ Advance(MaxAdvances)

SpecPolicy == Init /\ [][NextPolicy]_vars

\* The scheduler alone, where staging and refreshing succeed and every call of
\* _publish_graduates (Telegram send, store_pending_post, mark_published) may fail.
TickPublishMayFail(p, U, O) ==
    \/ TickStart(p, U, {TRUE})
    \/ TickFilter(p, {TRUE})
    \/ TickStageOne(p, O, {TRUE})
    \/ TickRefresh(p, {TRUE})
    \/ TickUpdateOne(p, O, {TRUE})
    \/ TickDecide(p)
    \/ TickDiscard(p, BOOLEAN)
    \/ TickSend(p, BOOLEAN)
    \/ TickStorePending(p, BOOLEAN)
    \/ TickMark(p, BOOLEAN)

NextPublish ==
    \/ TickPublishMayFail(1, Ids, ObsSmall)
    \/ Advance(MaxAdvances)

SpecPublish == Init /\ [][NextPublish]_vars

\* Two executions of publish_latest that may overlap (two beat schedulers, or
\* a run that outlasts the beat interval); no call fails.
NextOverlap ==
    \/ Tick(1, {1}, ObsSmall, {TRUE})
    \/ Tick(2, {1}, ObsSmall, {TRUE})
    \/ Advance(MaxAdvances)

SpecOverlap == Init /\ [][NextOverlap]_vars

\* The scheduler alone, whose worker may be killed after a send; no call fails.
NextInterrupt ==
    \/ Tick(1, {1}, ObsSmall, {TRUE})
    \/ TickInterrupt(1)
    \/ Advance(MaxAdvances)

SpecInterrupt == Init /\ [][NextInterrupt]_vars

\* The scheduler alone, where the metric refresh may fail: the fetch of
\* get_story_details and the write of update_staged_article.
TickRefreshMayFail(p, U, O) ==
    \/ TickStart(p, U, {TRUE})
    \/ TickFilter(p, {TRUE})
    \/ TickStageOne(p, O, {TRUE})
    \/ TickRefresh(p, BOOLEAN)
    \/ TickUpdateOne(p, O, BOOLEAN)
    \/ TickDecide(p)
    \/ TickDiscard(p, {TRUE})
    \/ TickSend(p, {TRUE})
    \/ TickStorePending(p, {TRUE})
    \/ TickMark(p, {TRUE})

NextRefresh ==
    \/ TickRefreshMayFail(1, Ids, ObsSmall)
    \/ Advance(MaxAdvances)

SpecRefresh == Init /\ [][NextRefresh]_vars

\* Beat keeps firing and no call fails: a tick that can take a step takes it,
\* and the clock advances while it may.
NextLive ==
    \/ Tick(1, {1}, ObsEpoch, {TRUE})
    \/ Advance(MaxAdvances)

SpecLive ==
    /\ Init
    /\ [][NextLive]_vars
    /\ WF_vars(Tick(1, {1}, ObsEpoch, {TRUE}))
    /\ WF_vars(Advance(MaxAdvances))

\* The same with articles whose posting time is T0.
NextLiveAging ==
    \/ Tick(1, {1}, ObsAging, {TRUE})
    \/ Advance(MaxAdvances)

SpecLiveAging ==
    /\ Init
    /\ [][NextLiveAging]_vars
    /\ WF_vars(Tick(1, {1}, ObsAging, {TRUE}))
    /\ WF_vars(Advance(MaxAdvances))

\* One bot process whose reply to the discussion may fail while its Redis calls
\* succeed, and a scheduler whose calls succeed.
HandlerReplyMayFail(h) ==
    \/ HStart(h)
    \/ HGet(h, {TRUE})
    \/ HDelete(h, {TRUE})
    \/ HReply(h, BOOLEAN)
    \/ HRestore(h, {TRUE})

NextRestore ==
    \/ Tick(1, {1}, ObsSmall, {TRUE})
    \/ HandlerReplyMayFail(1)
    \/ Advance(MaxBridgeAdvances)

SpecRestore == Init /\ [][NextRestore]_vars

\* The scheduler alone, where the write of stage_article may fail.
TickStageMayFail(p, U, O) ==
    \/ TickStart(p, U, {TRUE})
    \/ TickFilter(p, {TRUE})
    \/ TickStageOne(p, O, BOOLEAN)
    \/ TickRefresh(p, {TRUE})
    \/ TickUpdateOne(p, O, {TRUE})
    \/ TickDecide(p)
    \/ TickDiscard(p, {TRUE})
    \/ TickSend(p, {TRUE})
    \/ TickStorePending(p, {TRUE})
    \/ TickMark(p, {TRUE})

NextStaging ==
    \/ TickStageMayFail(1, Ids, ObsSmall)
    \/ Advance(MaxAdvances)

SpecStaging == Init /\ [][NextStaging]_vars

\* The scheduler alone, where the upstream has no detail for any id it is asked
\* to refresh (get_story_details skips the item), or the whole fetch raises.
TickNoDetail(p, U, O) ==
    \/ TickStart(p, U, {TRUE})
    \/ TickFilter(p, {TRUE})
    \/ TickStageOne(p, O, {TRUE})
    \/ TickRefresh(p, BOOLEAN)
    \/ TickUpdateOne(p, {}, {TRUE})
    \/ TickDecide(p)
    \/ TickDiscard(p, {TRUE})
    \/ TickSend(p, {TRUE})
    \/ TickStorePending(p, {TRUE})
    \/ TickMark(p, {TRUE})

NextNoDetail ==
    \/ TickNoDetail(1, Ids, ObsAging)
    \/ Advance(MaxAdvances)

SpecNoDetail == Init /\ [][NextNoDetail]_vars

\* One bot process that receives automatic forwards of any sender and origin,
\* and a scheduler; no call fails.
HandlerAnyForward(h) ==
    \/ HReceive(h)
    \/ HCheck(h)
    \/ HGet(h, {TRUE})
    \/ HDelete(h, {TRUE})
    \/ HReply(h, {TRUE})

NextForward ==
    \/ Tick(1, {1}, ObsSmall, {TRUE})
    \/ HandlerAnyForward(1)
    \/ Advance(MaxBridgeAdvances)

SpecForward == Init /\ [][NextForward]_vars

\* The scheduler alone, where only the upstream may fail: get_story_ids (no
\* candidate ids), get_articles_by_ids (no article fetched) and
\* get_story_details of _refresh_metrics; Redis and Telegram calls succeed.
TickUpstreamMayFail(p, U, O) ==
    \/ TickStart(p, U, {TRUE})
    \/ TickFilter(p, {TRUE})
    \/ TickStageOne(p, O, {TRUE})
    \/ TickRefresh(p, BOOLEAN)
    \/ TickUpdateOne(p, O, {TRUE})
    \/ TickDecide(p)
    \/ TickDiscard(p, {TRUE})
    \/ TickSend(p, {TRUE})
    \/ TickStorePending(p, {TRUE})
    \/ TickMark(p, {TRUE})

NextUpstream ==
    \/ TickUpstreamMayFail(1, Ids, ObsAging)
    \/ Advance(MaxAdvances)

SpecUpstream == Init /\ [][NextUpstream]_vars

\* The scheduler alone, where the per-article calls of the two loops may fail:
\* stage_article in _stage_new_articles and every call of _publish_graduates.
TickLoopsMayFail(p, U, O) ==
    \/ TickStart(p, U, {TRUE})
    \/ TickFilter(p, {TRUE})
    \/ TickStageOne(p, O, BOOLEAN)
    \/ TickRefresh(p, {TRUE})
    \/ TickUpdateOne(p, O, {TRUE})
    \/ TickDecide(p)
    \/ TickDiscard(p, BOOLEAN)
    \/ TickSend(p, BOOLEAN)
    \/ TickStorePending(p, BOOLEAN)
    \/ TickMark(p, BOOLEAN)

NextLoops ==
    \/ TickLoopsMayFail(1, Ids, ObsSmall)
    \/ Advance(MaxAdvances)

SpecLoops == Init /\ [][NextLoops]_vars

\* The scheduler alone, where only the send and the link registration of a
\* graduate may fail.
TickLinkMayFail(p, U, O) ==
    \/ TickStart(p, U, {TRUE})
    \/ TickFilter(p, {TRUE})
    \/ TickStageOne(p, O, {TRUE})
    \/ TickRefresh(p, {TRUE})
    \/ TickUpdateOne(p, O, {TRUE})
    \/ TickDecide(p)
    \/ TickDiscard(p, {TRUE})
    \/ TickSend(p, BOOLEAN)
    \/ TickStorePending(p, BOOLEAN)
    \/ TickMark(p, {TRUE})
NextLink ==
    \/ TickLinkMayFail(1, Ids, ObsSmall)
    \/ Advance(MaxAdvances)
SpecLink == Init /\ [][NextLink]_vars

\* One candidate end to end: the scheduler and one bot process, no call fails,
\* and time passes between ticks only.
AdvanceBetweenTicks(maxAdv) ==
    /\ AllIdle
    /\ Advance(maxAdv)
NextScenario ==
    \/ Tick(1, {1}, ObsSmall, {TRUE})
    \/ HandlerNoFail(1)
    \/ AdvanceBetweenTicks(MaxBridgeAdvances)
SpecScenario == Init /\ [][NextScenario]_vars

\* The scheduler, every call succeeding, over a Redis that loses payload keys.
NextDrift ==
    \/ Tick(1, Ids, ObsSmall, {TRUE})
    \/ LosePayload
    \/ Advance(MaxAdvances)
SpecDrift == Init /\ [][NextDrift]_vars

\* The scheduler, every call succeeding, over a Redis whose payloads may be
\* corrupt.
NextCorrupt ==
    \/ Tick(1, Ids, ObsSmall, {TRUE})
    \/ TickListRaises(1)
    \/ TickAbort(1)
    \/ CorruptPayload
    \/ Advance(MaxAdvances)
SpecCorrupt == Init /\ [][NextCorrupt]_vars

\* The scheduler, every call of which may fail, in a worker that may lack its
\* token, over a Redis whose payloads may be corrupt.
NextFaults ==
    \/ Tick(1, {1}, ObsSmall, BOOLEAN)
    \/ TickListRaises(1)
    \/ TickNoToken(1)
    \/ TickAbort(1)
    \/ CorruptPayload
    \/ Advance(MaxAdvances)
SpecFaults == Init /\ [][NextFaults]_vars

\* Links registered by the publish and again by direct calls, claimed by one
\* bot process; no call fails.
NextPending ==
    \/ Tick(1, {1}, ObsSmall, {TRUE})
    \/ CallStorePending({TRUE})
    \/ HandlerNoFail(1)
    \/ Advance(MaxBridgeAdvances)
SpecPending == Init /\ [][NextPending]_vars

\* Everything that writes the published set or runs beside it: the scheduler,
\* the direct calls that write the set or delete staged records, and one bot
\* process; no call fails.
NextEverything ==
    \/ Tick(1, {1}, ObsSmall, {TRUE})
    \/ CallMarkPublished({TRUE})
    \/ CallEnsurePublished({TRUE})
    \/ CallClearStage({TRUE})
    \/ HandlerNoFail(1)
    \/ Advance(MaxAdvances)
SpecEverything == Init /\ [][NextEverything]_vars

\* ------------------------------------------------------------------ claims
Staged(i) == i \in DOMAIN staging.payload \/ i \in staging.index
PostsOf(i) == { m \in 1..Len(channel) : channel[m] = i }
Links(e) == { k \in 1..Len(popLog[e]) : popLog[e][k] = "link" }

\* C1: no id is at once in the staging store (payload or index entry) and in
\* the published set.
C1_StagedXorPublished ==
    \A i \in Ids : ~(Staged(i) /\ i \in staging.published)

\* C2: a tick never calls stage_article for an id that is in the published
\* set, whichever store calls of the tick fail.
C2_NeverRestaged ==
    [][\A p \in Procs, i \in Ids :
          (pc[p] = "stage" /\ i \in todo[p] /\ i \notin todo'[p])
              => i \notin staging.published]_vars

\* C3: over non-overlapping, uninterrupted ticks the headline of an article is
\* sent to the channel successfully at most once, whichever calls fail.
C3_PublishedAtMostOnce ==
    \A i \in Ids : Cardinality(PostsOf(i)) <= 1

\* C4: of the pops made while a registration is live, the first returns the
\* link and every later one returns absent, whichever call of the pop fails.
C4_FirstPopOnly ==
    \A e \in Events :
        /\ Len(popLog[e]) >= 1 => popLog[e][1] = "link"
        /\ \A k \in 2..Len(popLog[e]) : popLog[e][k] = "absent"

\* C5: when two pops of one registered link run concurrently, at most one of
\* them returns the link.
C5_OneClaimer ==
    \A e \in Events : Cardinality(Links(e)) <= 1

C7_MarkPublishedNoOp ==
    \A i \in staging.published : mark_published(staging, i) = staging

\* C8: the index holds an id exactly when its payload exists, and a tick that
\* deletes a payload puts the id in the published set in the same step.
C8_IndexMatchesPayload ==
    /\ [](staging.index = DOMAIN staging.payload)
    /\ [][\A p \in Procs, i \in Ids :
            (pc[p] \in {"send", "mark"} /\ i \in DOMAIN staging.payload
                                        /\ i \notin DOMAIN staging'.payload)
                => (i \notin staging'.index /\ i \in staging'.published)]_vars

\* A staged article was posted and marked published (its payload and index
\* entry are gone) while another article is still staged.
C8_Witness ==
    /\ staging.index # {}
    /\ \E i \in staging.published :
        /\ PostsOf(i) # {}
        /\ i \notin staging.index
        /\ i \notin DOMAIN staging.payload

\* The reason C9 states: unknown score and comments count as 0, age needs a
\* known posting time.
C9_Reason(staged, t) ==
    LET score == IF staged.score = NONE THEN 0 ELSE staged.score
        comments == IF staged.comments = NONE THEN 0 ELSE staged.comments
    IN  IF score >= ARTICLE_MIN_POINTS THEN "score"
        ELSE IF comments >= ARTICLE_MIN_COMMENTS THEN "comments"
        ELSE IF staged.posted # NONE /\ t - staged.posted >= ARTICLE_MAX_WAIT_SECONDS
               THEN "age"
        ELSE "keep"

\* C9: for every record and time a tick decides on, _should_graduate gives
\* score, else comments, else age (posting time known and old enough), else keep.
C9_ReasonAsStated ==
    \A p \in Procs :
        pc[p] = "decide" =>
            \A i \in DOMAIN smap[p] :
                _should_graduate(smap[p][i], now[p]) = C9_Reason(smap[p][i], now[p])

\* The floor C10 states, on the record's own metrics (unknown as 0).
C10_BelowFloors(g) ==
    /\ g.reason = "age"
    /\ (IF g.staged.score = NONE THEN 0 ELSE g.staged.score) < ARTICLE_AGE_FLOOR_POINTS
    /\ (IF g.staged.comments = NONE THEN 0 ELSE g.staged.comments)
            < ARTICLE_AGE_FLOOR_COMMENTS

\* C10: a graduate is discarded (marked published, nothing sent) exactly when
\* its reason is age and it is below both floors; every other graduate is sent.
C10_DiscardIffBelowFloors ==
    [][\A p \in Procs :
          (pc[p] = "send" /\ <<pc[p], grads[p]>>' # <<pc[p], grads[p]>>) =>
              LET g == Head(grads[p])
              IN  IF C10_BelowFloors(g)
                    THEN /\ channel' = channel
                         /\ staging' = mark_published(staging, g.staged.id)
                    ELSE channel' = Append(channel, g.staged.id)]_vars

\* An aged graduate was discarded: published, with no headline in the channel.
C10_Witness ==
    \E i \in staging.published : PostsOf(i) = {}

\* C11: within a tick the graduates are handled in ascending staged_at order:
\* the graduate being published, discarded or failing is staged no later than
\* any graduate the tick has still to handle.
C11_GraduatesInStagedOrder ==
    \A p \in Procs :
        pc[p] \in {"send", "pending", "mark"} =>
            \A k \in 2..Len(grads[p]) :
                grads[p][1].staged.staged_at <= grads[p][k].staged.staged_at

\* A tick is about to publish the older of two graduates staged at different
\* times.
C11_Witness ==
    \E p \in Procs :
        /\ pc[p] = "send"
        /\ Len(grads[p]) = 2
        /\ grads[p][1].staged.staged_at < grads[p][2].staged.staged_at

\* The parts of C12 that do not depend on when a record was staged: a tick
\* refreshes and rewrites a record only if now - last_checked_ts is at least
\* the refresh interval, and after its refresh phase no such record is left.
C12_OnlyStale ==
    \A p \in Procs, i \in Ids :
        /\ (pc[p] = "update" /\ i \in todo[p] /\ i \notin todo'[p])
              => now[p] - smap[p][i].last_checked >= ARTICLE_METRIC_REFRESH_SECONDS
        /\ (/\ pc[p] \in {"refresh", "update"}
            /\ i \in DOMAIN staging.payload
            /\ i \in DOMAIN staging'.payload
            /\ staging'.payload[i] # staging.payload[i])
              => /\ i \in DOMAIN smap[p]
                 /\ now[p] - smap[p][i].last_checked >= ARTICLE_METRIC_REFRESH_SECONDS
C12_AllStale ==
    \A p \in Procs :
        pc[p] = "decide" =>
            \A i \in DOMAIN smap[p] :
                now[p] - smap[p][i].last_checked < ARTICLE_METRIC_REFRESH_SECONDS

\* C12 as stated: the gate above, and a record staged in this tick is never
\* refreshed in this tick.
C12_Original ==
    /\ []C12_AllStale
    /\ [][/\ C12_OnlyStale
          /\ \A p \in Procs, i \in Ids :
                (pc[p] = "update" /\ i \in todo[p] /\ i \notin todo'[p])
                    => i \notin fresh[p]]_vars

\* C12 as amended: the gate above, and a record staged in this tick is
\* refreshed in this tick only when the refresh interval has passed between
\* its staging and the tick's now.
C12_Amended ==
    /\ []C12_AllStale
    /\ [][/\ C12_OnlyStale
          /\ \A p \in Procs, i \in Ids :
                (pc[p] = "update" /\ i \in todo[p] /\ i \notin todo'[p]
                                 /\ i \in fresh[p])
                    => now[p] - smap[p][i].staged_at
                            >= ARTICLE_METRIC_REFRESH_SECONDS]_vars

\* After the refresh phase of a tick: one record was refreshed (checked now,
\* staged earlier) and one, staged in this tick, was left alone.
C12_Witness ==
    \E p \in Procs :
        /\ pc[p] = "decide"
        /\ \E i, j \in DOMAIN smap[p] :
            /\ smap[p][i].staged_at < smap[p][i].last_checked
            /\ smap[p][i].last_checked = now[p]
            /\ j \in fresh[p]
            /\ smap[p][j].last_checked = smap[p][j].staged_at

\* A send_article_bundle of the graduate in hand that failed.
C13_FailedSend(p) ==
    /\ pc[p] = "send"
    /\ ~Discards(Head(grads[p]))
    /\ pc'[p] # "pending"
    /\ grads'[p] # grads[p]

\* C13: a failed publish leaves the graduate's record staged, with payload,
\* index entry and staged_at as they were, adds nothing to the published set
\* and registers no link; the next tick lists and evaluates it again and, if
\* it still graduates, takes it up for publishing again.
C13_FailedPublishRetried ==
    /\ [](\A p \in Procs :
            pc[p] = "decide" =>
                \A i \in sendFailed \cap DOMAIN staging.payload :
                    /\ i \in DOMAIN smap[p]
                    /\ smap[p][i] = staging.payload[i])
    /\ [][\A p \in Procs :
            /\ C13_FailedSend(p) =>
                LET g == Head(grads[p]).staged
                IN  /\ staging' = staging
                    /\ pending' = pending
                    /\ channel' = channel
                    /\ g.id \in ListedIds(staging')
                    /\ staging'.payload[g.id] = g
                    /\ g.id \notin staging'.published
            /\ (pc[p] = "decide" /\ pc'[p] # "decide") =>
                \A i \in sendFailed \cap DOMAIN staging.payload :
                    Graduate(smap[p][i], now[p]).reason # "keep" =>
                        /\ pc'[p] = "send"
                        /\ \E k \in 1..Len(grads'[p]) :
                                grads'[p][k].staged = staging.payload[i]]_vars

\* An id whose send failed in one tick has been posted and marked published
\* by a later one.
C13_Witness ==
    \E i \in sendFailed :
        /\ PostsOf(i) # {}
        /\ i \in staging.published
        /\ ~Staged(i)

\* C14: after a successful send the loop goes on to mark_published whether
\* the link was registered, its registration failed, or no message id came
\* back; the mark moves the id to the published set and out of staging, so
\* between ticks every posted id is published and unstaged, and no id is
\* posted twice.
C14_MarkedWhateverTheLink ==
    /\ [](\A i \in Ids :
            /\ Cardinality(PostsOf(i)) <= 1
            /\ (AllIdle /\ PostsOf(i) # {}) =>
                    (i \in staging.published /\ ~Staged(i)))
    /\ [][\A p \in Procs :
            /\ (pc[p] = "pending" /\ pc'[p] # "pending") =>
                    /\ pc'[p] = "mark"
                    /\ grads'[p] = grads[p]
            /\ (pc[p] = "mark" /\ pc'[p] # "mark") =>
                    /\ Head(grads[p]).staged.id \in staging'.published
                    /\ Head(grads[p]).staged.id \notin DOMAIN staging'.payload
                    /\ Head(grads[p]).staged.id \notin staging'.index]_vars

\* Between ticks: the first post went out without any link being registered
\* for it, its id is published and unstaged, and a later post is of another id.
C14_Witness ==
    /\ AllIdle
    /\ Len(channel) = 2
    /\ pubRegAt[1] = NONE
    /\ channel[1] \in staging.published
    /\ ~Staged(channel[1])
    /\ channel[2] # channel[1]

\* C15, what holds in every state of the scenario: an id is posted at most
\* once; between ticks a posted id is published, unstaged and had its link
\* registered, and no record at or above the points threshold is left staged;
\* the first claim within a link's window returns the link, no other does,
\* and at most one reply is posted.
C15_ScenarioState ==
    /\ \A i \in Ids :
        /\ Cardinality(PostsOf(i)) <= 1
        /\ (AllIdle /\ PostsOf(i) # {}) =>
                /\ i \in staging.published
                /\ ~Staged(i)
                /\ \A e \in PostsOf(i) : pubRegAt[e] # NONE
        /\ (AllIdle /\ i \in DOMAIN staging.payload) =>
                /\ OrZero(staging.payload[i].score) < ARTICLE_MIN_POINTS
                /\ i \notin staging.published
    /\ \A e \in Events :
        /\ Links(e) \subseteq {1}
        /\ popLog[e] # <<>> => popLog[e][1] = "link"
        /\ replies[e] <= 1

\* C15: with no failures, a record below every threshold and not yet aged is
\* kept by a tick; a record whose last check is REFRESH_INTERVAL old is put in
\* the tick's refresh batch; a record with score at or above MIN_POINTS is
\* taken up for publishing; and the state properties above hold throughout.
C15_EndToEnd ==
    /\ []C15_ScenarioState
    /\ [][\A p \in Procs, i \in Ids :
            /\ (/\ pc[p] = "decide" /\ pc'[p] # "decide"
                /\ i \in DOMAIN smap[p]
                /\ OrZero(smap[p][i].score) < ARTICLE_MIN_POINTS
                /\ OrZero(smap[p][i].comments) < ARTICLE_MIN_COMMENTS
                /\ now[p] - smap[p][i].posted < ARTICLE_MAX_WAIT_SECONDS)
                    => /\ i \in ListedIds(staging')
                       /\ i \notin staging'.published
                       /\ channel' = channel
                       /\ \A k \in 1..Len(grads'[p]) : grads'[p][k].staged.id # i
            /\ (/\ pc[p] = "refresh" /\ pc'[p] # "refresh"
                /\ i \in DOMAIN smap[p]
                /\ clock - smap[p][i].last_checked >= ARTICLE_METRIC_REFRESH_SECONDS)
                    => (pc'[p] = "update" /\ i \in todo'[p])
            /\ (/\ pc[p] = "decide" /\ pc'[p] # "decide"
                /\ i \in DOMAIN smap[p]
                /\ OrZero(smap[p][i].score) >= ARTICLE_MIN_POINTS)
                    => /\ pc'[p] = "send"
                       /\ \E k \in 1..Len(grads'[p]) : grads'[p][k].staged.id = i]_vars

\* A record staged at the start, kept by that tick, refreshed to score 60 by a
\* later tick and posted once, is about to be marked published; its link has
\* been claimed by one notification, answered with one reply, and a second
\* notification has claimed nothing.
C15_Witness ==
    \E p \in Procs :
        /\ pc[p] = "mark"
        /\ Head(grads[p]).staged.staged_at = T0
        /\ Head(grads[p]).staged.last_checked >= T0 + ARTICLE_METRIC_REFRESH_SECONDS
        /\ Head(grads[p]).staged.score >= ARTICLE_MIN_POINTS
        /\ channel = <<Head(grads[p]).staged.id>>
        /\ popLog[1] = <<"link", "absent">>
        /\ replies[1] = 1

\* What update_staged_article may change when it rewrites the staged record
\* of id i with the time t supplied: the engagement fields and last_checked.
C16_Frame(i, t) ==
    /\ i \in DOMAIN staging'.payload
    /\ staging'.payload[i].id = i
    /\ staging'.payload[i].staged_at = staging.payload[i].staged_at
    /\ staging'.payload[i].last_checked = t
    /\ DOMAIN staging'.payload = DOMAIN staging.payload
    /\ \A j \in DOMAIN staging.payload \ {i} :
            staging'.payload[j] = staging.payload[j]
    /\ staging'.index = staging.index
    /\ staging'.published = staging.published

\* C16: update_staged_article on a staged record leaves staged_at, the id, the
\* records of every other id and the published set as they were and sets
\* last_checked_ts to the time supplied, in a tick's refresh and when called
\* directly with the record as staged.
C16_UpdateChangesMetricsOnly ==
    /\ \A p \in Procs, i \in Ids :
        (/\ pc[p] = "update" /\ i \in todo[p] /\ i \notin todo'[p]
         /\ i \in ListedIds(staging)
         /\ smap[p][i] = staging.payload[i])
            => C16_Frame(i, now[p])
    /\ (/\ held # <<>> /\ held' = <<>>
        /\ staging' # staging
        /\ held[1].id \in ListedIds(staging)
        /\ held[1] = staging.payload[held[1].id])
            => C16_Frame(held[1].id, clock)
C17_UpdateOfUnstagedIsNoOp ==
    [][(/\ held # <<>> /\ held' = <<>>
        /\ held[1].id \notin DOMAIN staging.payload
        /\ held[1].id \notin staging.index)
            => /\ held[1].id \notin DOMAIN staging'.payload
               /\ held[1].id \notin staging'.index]_vars

\* C18: a tick never calls stage_article for an id whose staged record exists
\* in the store, so no existing record has its staged_at reset by a tick's
\* staging step, also when the listing fails.
C18_NeverRestagesExisting ==
    [][\A p \in Procs, i \in Ids :
        (pc[p] = "stage" /\ i \in todo[p] /\ i \notin todo'[p])
            => /\ i \notin DOMAIN staging.payload
               /\ \A j \in DOMAIN staging.payload \cap DOMAIN staging'.payload :
                    staging'.payload[j].staged_at = staging.payload[j].staged_at]_vars

\* C19: no operation replaces the staged_at stored for an id by a smaller one.
C19_StagedAtNeverDecreases ==
    [][\A i \in Ids :
        (i \in DOMAIN staging.payload /\ i \in DOMAIN staging'.payload)
            => staging'.payload[i].staged_at >= staging.payload[i].staged_at]_vars

\* C20: whatever the store holds, every list list_staged_articles may return
\* has each staged record whose payload exists exactly once, no other entry,
\* and is in ascending order of staged_at; it holds the records a tick works on.
C20_ListedOnceOldestFirst ==
    \A q \in list_staged_articles(staging) :
        /\ Len(q) = Cardinality(ListedIds(staging))
        /\ \A i \in ListedIds(staging) :
                \E k \in 1..Len(q) : q[k] = staging.payload[i]
        /\ \A a, b \in 1..Len(q) : a # b => q[a].id # q[b].id
        /\ \A a, b \in 1..Len(q) : a < b => q[a].staged_at <= q[b].staged_at
        /\ \A k \in 1..Len(q) : ListResult(staging)[q[k].id] = q[k]

\* Two records staged at different times are listed, the older one first.
C20_Witness ==
    \E q \in list_staged_articles(staging) :
        /\ Len(q) = 2
        /\ q[1].staged_at < q[2].staged_at
        /\ q[1].id > q[2].id

\* C21: a listing whose store calls succeed returns no id whose payload is
\* missing, removes exactly those ids from the index, and leaves the index
\* entries with a payload, the payloads and the published set as they were.
C21_ListSelfHeals ==
    [][\A p \in Procs :
        (pc[p] = "idle" /\ pc'[p] = "filter") =>
            /\ DOMAIN smap'[p] = staging.index \cap DOMAIN staging.payload
            /\ staging'.index = staging.index \cap DOMAIN staging.payload
            /\ staging'.index \subseteq DOMAIN staging'.payload
            /\ staging'.payload = staging.payload
            /\ staging'.published = staging.published]_vars

\* A tick has just listed: an id whose payload was lost is gone from the index
\* (it was neither published nor returned), another record is returned and
\* still indexed.
C21_Witness ==
    \E p \in Procs, i \in lost, j \in Ids :
        /\ pc[p] = "filter"
        /\ i \notin staging.index
        /\ i \notin DOMAIN staging.payload
        /\ i \notin staging.published
        /\ i \notin DOMAIN smap[p]
        /\ j \in DOMAIN smap[p]
        /\ j \in staging.index

\* The index entry of a payload that does not decode is pruned by the listing.
C22_CorruptPruned ==
    [][\A p \in Procs, i \in Ids :
        (/\ pc[p] = "idle" /\ pc'[p] = "filter"
         /\ i \in staging.index \cap DOMAIN staging.payload
         /\ ~Decodes(staging.payload[i]))
            => i \notin staging'.index]_vars
\* No listing raises into the tick.
C22_ListNeverRaises == \A p \in Procs : pc[p] # "raised"

\* C22: a listing drops every record whose payload does not decode from its
\* result, prunes that record's index entry, and does not raise.
C22_CorruptDroppedAndPruned ==
    /\ []C22_ListNeverRaises
    /\ [][\A p \in Procs, i \in Ids :
            (/\ pc[p] = "idle" /\ pc'[p] = "filter"
             /\ i \in staging.index \cap DOMAIN staging.payload
             /\ ~Decodes(staging.payload[i]))
                => /\ i \notin DOMAIN smap'[p]
                   /\ i \notin staging'.index]_vars

\* What clear_stage of id i makes of the store as it is now.
C23_Frame(i) ==
    LET s2 == clear_stage(staging, i)
    IN  /\ i \notin DOMAIN s2.payload
        /\ i \notin s2.index
        /\ s2.published = staging.published
        /\ DOMAIN s2.payload = DOMAIN staging.payload \ {i}
        /\ \A j \in DOMAIN s2.payload : s2.payload[j] = staging.payload[j]
        /\ s2.index \ {i} = staging.index \ {i}

\* C23: clear_stage removes the id's payload and index entry and leaves the
\* published set and every other id's record as they were; a tick that stages
\* the id later stamps it with the time of that staging.
C23_ForgetThenRestage ==
    /\ [](\A i \in Ids : C23_Frame(i))
    /\ [][\A p \in Procs, i \in Ids :
            (pc[p] = "stage" /\ i \in todo[p] /\ i \notin todo'[p])
                => /\ i \in ListedIds(staging')
                   /\ staging'.payload[i].staged_at = clock
                   /\ staging'.payload[i].last_checked = clock]_vars

\* A record read while staged has since been forgotten (it is not published)
\* and staged anew by a tick, with a later staged_at.
C23_Witness ==
    /\ held # <<>>
    /\ held[1].id \in DOMAIN staging.payload
    /\ held[1].id \notin staging.published
    /\ staging.payload[held[1].id].staged_at > held[1].staged_at

\* The link stored for an event is the one last registered for it, and it
\* expires PENDING_REDIS_TTL after that registration.
C24_StoredIsLast ==
    \A e \in DOMAIN pending :
        /\ lastLink[e] # <<>>
        /\ pending[e].aid = lastLink[e][1].aid
        /\ pending[e].dest = lastLink[e][1].dest
        /\ pending[e].exp = lastLink[e][1].at + PENDING_REDIS_TTL

\* C24: a claim returns the link last registered for the event, never an
\* earlier one, and returns it whenever it comes less than PENDING_REDIS_TTL
\* after that last registration and no claim has taken the link since.
C24_RegisterOverwrites ==
    /\ []C24_StoredIsLast
    /\ [][\A h \in Handlers :
            hpc[h] = "get" =>
                LET e == hev[h]
                IN  /\ hpc'[h] = "delete" =>
                        /\ hraw'[h][1].aid = lastLink[e][1].aid
                        /\ hraw'[h][1].dest = lastLink[e][1].dest
                        /\ clock < lastLink[e][1].at + PENDING_REDIS_TTL
                    /\ (/\ hpc'[h] = "idle"
                        /\ lastLink[e] # <<>>
                        /\ clock < lastLink[e][1].at + PENDING_REDIS_TTL)
                            => Links(e) # {}]_vars

\* A handler holds the link of a second registration (another article and
\* destination than the publish registered for this post), made ten minutes
\* after the publish while the first link was live; the window of the
\* publish's own registration has passed by now.
C24_Witness ==
    \E h \in Handlers :
        /\ hpc[h] = "delete"
        /\ hraw[h][1].aid # channel[hev[h]]
        /\ hraw[h][1].dest # DEST
        /\ pubRegAt[hev[h]] = EXPIRED
        /\ lastLink[hev[h]][1].at = T0 + 10 * SECONDS_IN_MINUTE
        /\ clock = T0 + 20 * SECONDS_IN_MINUTE
        /\ hraw[h][1].aid # channel[hev[h]]
        /\ hraw[h][1].dest # DEST

\* C25: no step of a tick, of a store operation, of a notification handler or
\* of the clock takes an id out of the published set.
C25_PublishedOnlyGrows ==
    [][staging.published \subseteq staging'.published]_vars

\* Long after it was published (MAX_WAIT has passed on the clock), an id that
\* was posted and answered in the discussion is in the published set, beside
\* another published id.
C25_Witness ==
    /\ clock >= T0 + ARTICLE_MAX_WAIT_SECONDS
    /\ \E e \in 1..Len(channel) :
        /\ replies[e] >= 1
        /\ channel[e] \in staging.published
    /\ Cardinality(staging.published) >= 2

\* C26: whatever fails, a tick stands at one of the steps of publish_latest or
\* has returned; it is never left by an exception.
C26_TickReturnsNormally ==
    \A p \in Procs :
        pc[p] \in {"idle", "filter", "stage", "refresh", "update", "decide",
                   "send", "pending", "mark"}

\* C27: a failure for one candidate never stops the rest of the tick.  While
\* more than one graduate is left, a step of the graduation loop (failed send,
\* failed link registration or failed mark_published included) either stays with
\* the graduate at hand or moves on to the next one; while more than one fetched
\* article is left to stage, a step of the staging loop (a failed stage_article
\* included) leaves the loop at the remaining articles.  C27_Steps(p) tells
\* the steps of tick p from those of the clock.
C27_InLoop(p) == pc[p] \in {"send", "pending", "mark"}
C27_Steps(p) == <<pc[p], todo[p], grads[p]>>' # <<pc[p], todo[p], grads[p]>>
C27_LoopsGoOn ==
    [][\A p \in Procs : C27_Steps(p) =>
         /\ (C27_InLoop(p) /\ Len(grads[p]) > 1)
              => \/ pc'[p] \in {"pending", "mark"} /\ grads'[p] = grads[p]
                 \/ pc'[p] = "send" /\ grads'[p] = Tail(grads[p])
         /\ (pc[p] = "send" /\ Len(grads[p]) > 1 /\ sendFailed' # sendFailed)
              => pc'[p] = "send" /\ grads'[p] = Tail(grads[p])
         /\ (pc[p] = "stage" /\ Cardinality(todo[p]) > 1)
              => /\ pc'[p] = "stage"
                 /\ \E i \in todo[p] : todo'[p] = todo[p] \ {i}
    ]_vars
\* The headline of the last graduate has been sent, and the send of the
\* graduate before it failed: that one is still staged and was not posted.
C27_Witness ==
    /\ pc[1] = "pending"
    /\ Len(grads[1]) = 1
    /\ sendFailed # {}
    /\ Head(grads[1]).staged.id \notin sendFailed
    /\ \A i \in sendFailed : Staged(i)
    /\ \A i \in sendFailed : PostsOf(i) = {}

\* C28: a failure of the upstream does not abort the tick.  Whatever ranked ids
\* and articles the upstream delivers (none included), the staged records the
\* tick listed stay in its map as stored; with a failed metric fetch the tick
\* goes on to the decision with the map unchanged; the graduates are exactly the
\* records of the map that _should_graduate accepts at the tick's now; and a
\* graduate that is not discarded is posted to the channel.
C28_Steps(p) ==
    <<pc[p], cand[p], smap[p], todo[p], grads[p]>>' # <<pc[p], cand[p], smap[p], todo[p], grads[p]>>
C28_Kept(p, ids) ==
    \A i \in ids : i \in DOMAIN smap'[p] /\ smap'[p][i] = smap[p][i]
C28_Qualifying(p) ==
    { smap[p][i] : i \in { j \in DOMAIN smap[p] : _should_graduate(smap[p][j], now[p]) # "keep" } }
C28_UpstreamFailureTolerated ==
    [][\A p \in Procs : C28_Steps(p) =>
         /\ pc[p] = "idle"
              => pc'[p] = "filter" /\ smap'[p] = ListResult(staging)
         /\ pc[p] \in {"filter", "stage"}
              => pc'[p] \in {"stage", "refresh"} /\ C28_Kept(p, DOMAIN smap[p])
         /\ (pc[p] = "refresh" /\ DOMAIN smap[p] # {})
              => /\ pc'[p] \in {"update", "decide"}
                 /\ smap'[p] = smap[p]
                 /\ now'[p] = clock
         /\ pc[p] = "update"
              => /\ pc'[p] \in {"update", "decide"}
                 /\ DOMAIN smap'[p] = DOMAIN smap[p]
                 /\ C28_Kept(p, DOMAIN smap[p] \ todo[p])
         /\ pc[p] = "decide"
              => IF C28_Qualifying(p) = {}
                   THEN pc'[p] = "idle"
                   ELSE /\ pc'[p] = "send"
                        /\ { grads'[p][k].staged : k \in 1..Len(grads'[p]) } = C28_Qualifying(p)
         /\ (pc[p] = "send" /\ ~Discards(Head(grads[p])))
              => channel' = Append(channel, Head(grads[p]).staged.id)
    ]_vars
\* A headline has been posted for a graduate by age whose record was last
\* checked at T0: its refresh was due in this tick and the fetch failed.
C28_Witness ==
    /\ pc[1] = "pending"
    /\ Head(grads[1]).reason = "age"
    /\ Head(grads[1]).staged.last_checked = T0
    /\ clock >= T0 + ARTICLE_MAX_WAIT_SECONDS
    /\ Len(channel) > 0
    /\ channel[Len(channel)] = Head(grads[1]).staged.id

\* C29: with one bot process handling the notifications one after the other,
\* at most one reply is posted to the discussion per channel post.
C29_AtMostOneReply ==
    \A e \in Events : replies[e] <= 1

\* C30: nothing keeps two overlapping ticks from posting the same id.  A tick
\* posts the graduate at the head of its own list whatever the store and the
\* other tick say: when an id that already has a post is posted again, either
\* the other tick is still between its send and its mark_published of that id,
\* or the id is already in the published set and the poster acts on what it
\* read before.
C30_Posting(p, i) ==
    /\ pc[p] = "send"
    /\ Head(grads[p]).staged.id = i
    /\ channel' = Append(channel, i)
C30_SecondPostFromStaleRead ==
    [][\A p \in Procs, i \in Ids :
         (C30_Posting(p, i) /\ PostsOf(i) # {})
             => \/ \E q \in Procs \ {p} :
                     /\ pc[q] \in {"pending", "mark"}
                     /\ Head(grads[q]).staged.id = i
                \/ i \in staging.published
    ]_vars
\* Both ticks took the same record for a graduate and both have posted it:
\* the channel carries the id twice and neither tick has marked it published.
C30_Witness ==
    /\ pc[1] \in {"pending", "mark"}
    /\ pc[2] \in {"pending", "mark"}
    /\ Head(grads[1]).staged = Head(grads[2]).staged
    /\ Cardinality(PostsOf(Head(grads[1]).staged.id)) = 2
    /\ Head(grads[1]).staged.id \notin staging.published

\* C31: an id that was posted but never marked published (the worker was
\* interrupted after the send) is still staged with a record that lists, it is
\* not in the published set, and the next tick takes that record into the map
\* it decides on.
C31_PostedUnmarked(i) ==
    /\ pc[1] = "idle"
    /\ PostsOf(i) # {}
    /\ i \notin staging.published
C31_InterruptedStaysStaged ==
    /\ [](\A i \in Ids : C31_PostedUnmarked(i) => i \in ListedIds(staging))
    /\ [][\A i \in Ids :
            (C31_PostedUnmarked(i) /\ pc'[1] = "filter")
                => /\ i \in DOMAIN smap'[1]
                   /\ smap'[1][i] = staging.payload[i]]_vars
\* The id was posted, the worker was interrupted before mark_published, and
\* the next tick has posted it a second time.
C31_Witness ==
    /\ pc[1] = "pending"
    /\ Head(grads[1]).staged.id = 1
    /\ Cardinality(PostsOf(1)) = 2
    /\ 1 \notin staging.published
    /\ Staged(1)

\* C32: a tick stages, refreshes, decides and publishes in that order, and it
\* decides on what it refreshed: a refresh that raises a stored score to
\* ARTICLE_MIN_POINTS or more puts the written record in the tick's map, and
\* every record of the map with such a score is a graduate of this tick.
C32_Rank(s) ==
    CASE s = "idle" -> 0 [] s = "filter" -> 1 [] s = "stage" -> 2
      [] s = "refresh" -> 3 [] s = "update" -> 4 [] s = "decide" -> 5
      [] OTHER -> 6
C32_Raised(i) ==
    /\ i \in DOMAIN staging.payload
    /\ i \in DOMAIN staging'.payload
    /\ OrZero(staging.payload[i].score) < ARTICLE_MIN_POINTS
    /\ OrZero(staging'.payload[i].score) >= ARTICLE_MIN_POINTS
C32_DecidesOnRefreshed ==
    [][\A p \in Procs :
         /\ (pc'[p] # pc[p] /\ pc'[p] # "idle") => C32_Rank(pc'[p]) >= C32_Rank(pc[p])
         /\ \A i \in Ids :
              /\ (pc[p] = "update" /\ C32_Raised(i))
                    => /\ i \in DOMAIN smap'[p]
                       /\ smap'[p][i] = staging'.payload[i]
              /\ (/\ pc[p] = "decide" /\ pc'[p] # "decide"
                  /\ i \in DOMAIN smap[p]
                  /\ OrZero(smap[p][i].score) >= ARTICLE_MIN_POINTS)
                    => /\ pc'[p] = "send"
                       /\ \E k \in 1..Len(grads'[p]) :
                             /\ grads'[p][k].staged = smap[p][i]
                             /\ grads'[p][k].reason = "score"
    ]_vars
\* A record staged below the threshold was refreshed to a score of
\* ARTICLE_MIN_POINTS or more and is the graduate the same tick is to send.
C32_Witness ==
    /\ pc[1] = "send"
    /\ Head(grads[1]).reason = "score"
    /\ Head(grads[1]).staged.last_checked
            >= Head(grads[1]).staged.staged_at + ARTICLE_METRIC_REFRESH_SECONDS
    /\ PostsOf(Head(grads[1]).staged.id) = {}
    /\ staging.payload[Head(grads[1]).staged.id] = Head(grads[1]).staged

\* C33: a staged record whose posting time is known and at least
\* ARTICLE_MAX_WAIT_SECONDS back eventually leaves the staging store and is in
\* the published set, whatever its score and comment count.
C33_Aged(i) ==
    /\ i \in DOMAIN staging.payload
    /\ Decodes(staging.payload[i])
    /\ staging.payload[i].posted # NONE
    /\ clock - staging.payload[i].posted >= ARTICLE_MAX_WAIT_SECONDS
C33_AgedLeavesStaging ==
    \A i \in Ids : C33_Aged(i) ~> (i \in staging.published /\ ~Staged(i))

\* C34: when the reply for a claimed link fails, no reply is counted and the
\* handler registers the claimed article and destination again under the same
\* channel post, with a new expiry; the link can then be claimed again.
C34_RestoredAfterFailedReply ==
    [][\A h \in Handlers :
         /\ (hpc[h] = "reply" /\ hpc'[h] = "restore")
              => /\ replies' = replies
                 /\ hev'[h] = hev[h]
                 /\ hraw'[h] = hraw[h]
         /\ (hpc[h] = "restore" /\ hpc'[h] # "restore")
              => /\ hev[h] \in DOMAIN Unexpired(pending', clock)
                 /\ pending'[hev[h]].aid = hraw[h][1].aid
                 /\ pending'[hev[h]].dest = hraw[h][1].dest
                 /\ pending'[hev[h]].aid = channel[hev[h]]
                 /\ pending'[hev[h]].exp = clock + PENDING_REDIS_TTL
                 /\ replies' = replies
    ]_vars
\* The reply for channel post 1 failed, its link was registered again later
\* than the tick registered it, and a later notification has claimed that link
\* and posted the one reply.
C34_Witness ==
    /\ Len(channel) >= 1
    /\ pubRegAt[1] = T0
    /\ lastLink[1] # <<>>
    /\ lastLink[1][1].at > T0
    /\ lastLink[1][1].aid = channel[1]
    /\ replies[1] = 1
    /\ 1 \notin DOMAIN pending

\* C35: a metric refresh write of a tick (a step of its update loop) does not
\* bring back an id that is in the published set and out of the staging store:
\* the id has no payload and no index entry after the write either.
C35_RefreshKeepsPublishedOut ==
    [][\A p \in Procs, i \in staging.published :
         (/\ pc[p] = "update"
          /\ todo'[p] # todo[p]
          /\ i \notin DOMAIN staging.payload
          /\ i \notin staging.index)
             => (i \notin DOMAIN staging'.payload /\ i \notin staging'.index)
    ]_vars

\* C36: no tick posts an id that is in the published set when the tick sends
\* (ensure_published and every other call run between ticks, so an id seeded
\* before the tick started is in the set at that moment).
C36_SeededNeverPosted ==
    [][\A p \in Procs :
         (pc[p] = "send" /\ channel' # channel)
             => Head(grads[p]).staged.id \notin staging.published
    ]_vars

\* C37: a tick posts only ids with a persisted staged record.  Its map starts
\* as the records list_staged_articles read; an id enters the map later only
\* with the record the store holds for it after the stage_article step; an
\* article whose write failed and that has no payload is not put in the map; no
\* other step adds to the map; the graduates are taken from the map, and the
\* id posted is the graduate at hand.
C37_Ids(q) == { q[k].staged.id : k \in 1..Len(q) }
C37_OnlyPersistedPosted ==
    [][\A p \in Procs :
         /\ (pc[p] = "idle" /\ pc'[p] = "filter")
              => \A i \in DOMAIN smap'[p] :
                    i \in ListedIds(staging) /\ smap'[p][i] = staging.payload[i]
         /\ pc[p] = "stage"
              => /\ \A i \in DOMAIN smap'[p] \ DOMAIN smap[p] :
                       /\ i \in staging'.index
                       /\ i \in DOMAIN staging'.payload
                       /\ staging'.payload[i] = smap'[p][i]
                 /\ \A i \in todo[p] \ todo'[p] :
                       i \notin DOMAIN staging'.payload => i \notin DOMAIN smap'[p]
         /\ pc[p] \in {"filter", "refresh", "update"}
              => DOMAIN smap'[p] \subseteq DOMAIN smap[p]
         /\ (pc[p] = "decide" /\ pc'[p] # "decide")
              => C37_Ids(grads'[p]) \subseteq DOMAIN smap[p]
         /\ pc[p] \in {"send", "pending", "mark"}
              => C37_Ids(grads'[p]) \subseteq C37_Ids(grads[p])
         /\ (pc[p] = "send" /\ channel' # channel)
              => channel' = Append(channel, Head(grads[p]).staged.id)
    ]_vars
\* The tick has posted the article it staged itself at T0, while the other id
\* has no staged record, is not published and was not posted.
C37_Witness ==
    /\ pc[1] = "pending"
    /\ nAdv = 0
    /\ Head(grads[1]).staged.id = 2
    /\ Head(grads[1]).staged.staged_at = T0
    /\ channel = <<2>>
    /\ ~Staged(1)
    /\ 1 \notin staging.published

\* C38: a refresh without detail keeps the record's score, comment count and
\* posting time and sets last_checked_ts to the tick's now; a detail with an
\* absent field keeps that field; only records whose last check is a refresh
\* interval back are requested; and when the fetch raises nothing is written.
C38_Fields(r) == <<r.score, r.comments, r.posted>>
C38_KeepsKnown(r, t) ==
    /\ UpdatedRecord(r, NoDetail, t) = [r EXCEPT !.last_checked = t]
    /\ \A d \in ObsWide :
          LET u == UpdatedRecord(r, d, t)
          IN  /\ d.score = NONE => u.score = r.score
              /\ d.comments = NONE => u.comments = r.comments
              /\ d.posted = NONE => u.posted = r.posted
              /\ u.last_checked = t
              /\ u.id = r.id /\ u.staged_at = r.staged_at
C38_NoDetailKeepsMetrics ==
    /\ [](\A p \in Procs :
            pc[p] = "update" => \A i \in todo[p] : C38_KeepsKnown(smap[p][i], now[p]))
    /\ [][\A p \in Procs :
            /\ pc[p] = "update"
                 => \A i \in todo[p] \ todo'[p] :
                       /\ staging'.payload[i] = [smap[p][i] EXCEPT !.last_checked = now[p]]
                       /\ smap'[p][i] = staging'.payload[i]
                       /\ ~NeedsRefresh(staging'.payload[i], now[p])
            /\ (pc[p] = "refresh" /\ pc'[p] = "update")
                 => \A i \in todo'[p] :
                       clock - smap[p][i].last_checked >= ARTICLE_METRIC_REFRESH_SECONDS
            /\ (pc[p] = "refresh" /\ pc'[p] = "decide")
                 => staging' = staging /\ smap'[p] = smap[p]
      ]_vars
\* A record staged at T0 at the age floor went through a refresh without
\* detail: it still has its score and posting time, in the store and in the
\* tick's map, and its last check is the tick's now.
C38_Witness ==
    /\ pc[1] = "decide"
    /\ 1 \in DOMAIN smap[1]
    /\ smap[1][1].staged_at = T0
    /\ smap[1][1].last_checked = now[1]
    /\ now[1] > T0
    /\ C38_Fields(smap[1][1]) = <<ARTICLE_AGE_FLOOR_POINTS, 0, T0>>
    /\ staging.payload[1] = smap[1][1]

\* C39: a forward whose sender is not CHANNEL_ID, or that has no origin
\* message id, ends the handler at once: the pending store, the replies and
\* the log of claims stay as they are.
C39_Dropped(h) == hsrc[h] # CHANNEL_ID \/ hev[h] = NONE
C39_RejectedForwardNoEffect ==
    [][\A h \in Handlers :
         (hpc[h] = "check" /\ hpc'[h] # "check" /\ C39_Dropped(h))
             => /\ hpc'[h] = "idle"
                /\ pending' = pending
                /\ replies' = replies
                /\ popLog' = popLog
                /\ hraw'[h] = <<>>
    ]_vars
\* A forward from another channel names channel post 1 as its origin while the
\* link of post 1 is live.
C39_Witness ==
    /\ hpc[1] = "check"
    /\ hsrc[1] = OTHER_CHANNEL
    /\ hev[1] = 1
    /\ 1 \in DOMAIN Unexpired(pending, clock)
    /\ replies[1] = 0

\* C40: every staged record has staged_at <= last_checked_ts: the payloads in
\* the store that decode, and the records a tick holds in its map and among
\* its graduates.
C40_Ordered(r) == r.staged_at <= r.last_checked
C40_StagedBeforeChecked ==
    /\ \A i \in DOMAIN staging.payload :
          Decodes(staging.payload[i]) => C40_Ordered(staging.payload[i])
    /\ \A p \in Procs :
          /\ \A i \in DOMAIN smap[p] : C40_Ordered(smap[p][i])
          /\ \A k \in 1..Len(grads[p]) : C40_Ordered(grads[p][k].staged)
\* A staged record was refreshed after the clock moved on, and the other tick
\* still holds the record as first staged.
C40_Witness ==
    /\ 1 \in DOMAIN staging.payload
    /\ staging.payload[1].staged_at < staging.payload[1].last_checked
    /\ 1 \in DOMAIN smap[2]
    /\ smap[2][1].staged_at = smap[2][1].last_checked

====
